---- MODULE Spec2Model ----
(***************************************************************************)
(* A model of gap_buffer.c: a UTF-8 gap buffer with a cursor.              *)
(*                                                                         *)
(* The buffer is the struct GapBuffer (is_static, no_resize, gap_offset,   *)
(* gap_length, total, data[]).  Bytes are integers 0..255, strings are     *)
(* sequences of bytes; data[i] of the C code is At(data, i).  size_t       *)
(* values are modelled as integers: a difference that would wrap around in *)
(* C shows up as a negative number.                                        *)
(***************************************************************************)
EXTENDS Integers, Sequences, FiniteSets, TLC

\* Largest capacity (total) a buffer may reach; a relocation beyond it is not
\* explored.
MaxTotal == 5

\* Largest capacity a buffer is created with.
MaxCapacity == 2

\* Largest codepoint count passed to a move or a remove.
MaxNum == 3

\* sizeof(GapBuffer): two bools and three size_t, no data (LP64).
SizeofGapBuffer == 32

\* sizeof(iter->maybe): char maybe[512] of GapBufferIter.
SizeofMaybe == 512

\* sizeof(buffer): char buffer[32] of main, the strings it inserts come from.
SizeofBuffer == 32

\* The bytes of the longest UTF-8 sequence.
MaxSymbol == 4

\* Longest text the buffers that are iterated over are filled with, long lines
\* apart.
MaxText == 3

\* Longest first fragment of a long line split by the gap, fragments longer
\* than the iterator's array apart.
MaxFragment == 3

\* GapBufferIter_next is called this many times at most after it has
\* returned false.
MaxExhausted == 2

\* The bytes that follow the first in a string given to getSymbolRune.
MaxTail == 3

\* The largest capacity (total) of a buffer followed from its creation to its
\* destruction.
MaxLife == 4

VARIABLES
    is_static,   \* struct GapBuffer
    no_resize,
    gap_offset,
    gap_length,
    total,
    data,
    handle,      \* the caller's GapBuffer*: the id of the region it points to
    heap,        \* ids of the regions obtained from malloc and not yet freed
    last,        \* the last call: its name, return value, path and byte delta
    net,         \* bytes inserted so far minus bytes of the codepoints removed
    aborted,     \* an assert() of the source has failed, or the program died
    iter,        \* the caller's GapBufferIter
    line,        \* the caller's GapBufferLine
    trace,       \* the lines the iterator has yielded, as the caller read them,
                 \* the number of times it has returned false, and its faults
    todo,        \* what the caller still has to do to the buffer before it
                 \* iterates: the strings to insert, the codepoints to go back
    symbol       \* the last call of getSymbolRune: the bytes sym it was given,
                 \* the codepoint rune they encode when the caller encoded
                 \* one, its return value k and the value rune2 it stored

vars == <<is_static, no_resize, gap_offset, gap_length, total, data,
          handle, heap, last, net, aborted, iter, line, trace, todo,
          symbol>>

\* The strings passed to GapBuffer_insertString.
Strings ==
    { <<>>,
      <<97>>,                    \* "a"
      <<195, 128>>,              \* U+00C0, 2 bytes
      <<226, 128, 128>>,         \* U+2000, 3 bytes
      <<240, 144, 128, 128>>,    \* U+10000, 4 bytes
      <<97, 195, 128>>,          \* "a" U+00C0
      <<128>>,                   \* a lone continuation byte
      <<97, 128>>,               \* a valid prefix, then a continuation byte
      <<226, 128>>,              \* a truncated 3-byte sequence
      <<192, 128>>,              \* an overlong 2-byte sequence
      <<248, 144, 128, 128>> }   \* lead byte 0xF8

\* What a byte of memory fresh from malloc (or from the caller) may hold.
Junk == {0, 128}

NULL == [null |-> TRUE]

\* The address that stands in the heap for a heap that free() has corrupted.
Corrupt == -1

\* The outcome of a call in which an assert() failed.
Abort == [abort |-> TRUE]

MAX(X, Y) == IF X > Y THEN X ELSE Y

At(d, i) == d[i + 1]

\* The array d after memcpy(d + dst, src, Len(src)): n of the bytes land
\* inside d.
memcpy(d, dst, src) ==
    LET room == Len(d) - dst
        n == IF Len(src) < room THEN Len(src) ELSE room
    IN  IF n <= 0 THEN d
        ELSE SubSeq(d, 1, dst) \o SubSeq(src, 1, n)
                 \o SubSeq(d, dst + n + 1, Len(d))

\* memmove copying byte by byte from the low addresses up, whatever the
\* overlap: a byte read at or after dst has already been overwritten.
memmove_forwardCopy(d, dst, src, n) ==
    [k \in 1..Len(d) |->
        IF dst <= k - 1 /\ k - 1 < dst + n
        THEN IF dst > src
             THEN d[src + ((k - 1 - dst) % (dst - src)) + 1]
             ELSE d[k - dst + src]
        ELSE d[k]]

memmove(d, dst, src, n) ==
    [k \in 1..Len(d) |->
        IF dst <= k - 1 /\ k - 1 < dst + n THEN d[k - dst + src] ELSE d[k]]

Buff ==
    [is_static |-> is_static, no_resize |-> no_resize,
     gap_offset |-> gap_offset, gap_length |-> gap_length,
     total |-> total, data |-> data]

GapBuffer_getByteCount(buff) == buff.total - buff.gap_length

\* The address malloc returns: that of a region that is not live.  Addresses
\* are numbers from 1 on; 0 is the address of memory the caller supplied.
malloc(hp) == CHOOSE p \in 1..(Cardinality(hp) + 1) : p \notin hp

\* GapBuffer_createUsingMemory giving the text the whole of the memory.
GapBuffer_createUsingMemory_withoutHeader(mem, len, junk) ==
    IF mem = NULL THEN NULL
    ELSE [is_static |-> TRUE, no_resize |-> TRUE,
          gap_offset |-> 0, gap_length |-> len, total |-> len,
          data |-> [k \in 1..len |-> junk]]

\* mem is NULL or [block |-> the address of the caller's memory].
GapBuffer_createUsingMemory(mem, len, junk) ==
    IF mem = NULL \/ len < SizeofGapBuffer THEN NULL
    ELSE LET capacity == len - SizeofGapBuffer IN
         [is_static |-> TRUE, no_resize |-> TRUE,
          gap_offset |-> 0, gap_length |-> capacity, total |-> capacity,
          data |-> [k \in 1..capacity |-> junk]]

\* NULL, or [buff: the new struct, handle: its address, heap: the heap with it]
GapBuffer_create(capacity, hp, malloc_ok, junk) ==
    IF ~malloc_ok THEN NULL
    ELSE [buff |-> [is_static |-> FALSE, no_resize |-> FALSE,
                    gap_offset |-> 0, gap_length |-> capacity,
                    total |-> capacity,
                    data |-> [k \in 1..capacity |-> junk]],
          handle |-> malloc(hp),
          heap |-> hp \cup {malloc(hp)}]

\* The heap after free(p).  Freeing what is not a live region of the heap
\* (a region already freed, memory that never came from malloc) is undefined:
\* the heap is corrupt from then on, which the address Corrupt stands for.
free(hp, p) == IF p \in hp THEN hp \ {p} ELSE hp \cup {Corrupt}

\* GapBuffer_destroy without the test of is_static.
GapBuffer_destroy_freeingAlways(buff, h, hp) == free(hp, h)

\* The heap after GapBuffer_destroy of the buffer at address h.
GapBuffer_destroy(buff, h, hp) == IF ~buff.is_static THEN free(hp, h) ELSE hp

getStringBeforeGap(buff) == SubSeq(buff.data, 1, buff.gap_offset)

getStringAfterGap(buff) ==
    LET first_byte_after_gap == buff.gap_offset + buff.gap_length IN
    SubSeq(buff.data, first_byte_after_gap + 1, buff.total)

RECURSIVE growGap(_, _, _, _)

\* ensureSpace relocating whatever no_resize says.
ensureSpace_ignoringNoResize(ref, min, malloc_ok, junk) ==
    IF ref.buff.gap_length < min
    THEN LET new_buff == growGap(ref, min, malloc_ok, junk) IN
         IF new_buff = NULL
         THEN [ok |-> FALSE, buff |-> ref.buff, handle |-> ref.handle,
               heap |-> ref.heap]
         ELSE [ok |-> TRUE, buff |-> new_buff.buff,
               handle |-> new_buff.handle,
               heap |-> GapBuffer_destroy(ref.buff, ref.handle, new_buff.heap)]
    ELSE [ok |-> TRUE, buff |-> ref.buff, handle |-> ref.handle,
          heap |-> ref.heap]

\* ensureSpace relocating also when a string, not empty, fills the gap
\* exactly.
ensureSpace_wantingSpare(ref, min, malloc_ok, junk) ==
    IF ref.buff.gap_length < min \/ (ref.buff.gap_length = min /\ min > 0)
    THEN IF ref.buff.no_resize
         THEN [ok |-> FALSE, buff |-> ref.buff, handle |-> ref.handle,
               heap |-> ref.heap]
         ELSE LET new_buff == growGap(ref, min, malloc_ok, junk) IN
              IF new_buff = NULL
              THEN [ok |-> FALSE, buff |-> ref.buff, handle |-> ref.handle,
                    heap |-> ref.heap]
              ELSE [ok |-> TRUE, buff |-> new_buff.buff,
                    handle |-> new_buff.handle,
                    heap |-> GapBuffer_destroy(ref.buff, ref.handle,
                                               new_buff.heap)]
    ELSE [ok |-> TRUE, buff |-> ref.buff, handle |-> ref.handle,
          heap |-> ref.heap]

\* ensureSpace releasing the old region before it knows it has a new one.
ensureSpace_destroyingFirst(ref, min, malloc_ok, junk) ==
    IF ref.buff.gap_length < min
    THEN IF ref.buff.no_resize
         THEN [ok |-> FALSE, buff |-> ref.buff, handle |-> ref.handle,
               heap |-> ref.heap]
         ELSE LET new_buff == growGap(ref, min, malloc_ok, junk) IN
              IF new_buff = NULL
              THEN [ok |-> FALSE, buff |-> ref.buff, handle |-> ref.handle,
                    heap |-> GapBuffer_destroy(ref.buff, ref.handle, ref.heap)]
              ELSE [ok |-> TRUE, buff |-> new_buff.buff,
                    handle |-> new_buff.handle,
                    heap |-> GapBuffer_destroy(ref.buff, ref.handle,
                                               new_buff.heap)]
    ELSE [ok |-> TRUE, buff |-> ref.buff, handle |-> ref.handle,
          heap |-> ref.heap]

\* ensureSpace asking a buffer that cannot grow for a gap longer than min.
ensureSpace_refusingFullBuffer(ref, min, malloc_ok, junk) ==
    IF ref.buff.gap_length < min
           \/ (ref.buff.no_resize /\ ref.buff.gap_length = min)
    THEN IF ref.buff.no_resize
         THEN [ok |-> FALSE, buff |-> ref.buff, handle |-> ref.handle,
               heap |-> ref.heap]
         ELSE LET new_buff == growGap(ref, min, malloc_ok, junk) IN
              IF new_buff = NULL
              THEN [ok |-> FALSE, buff |-> ref.buff, handle |-> ref.handle,
                    heap |-> ref.heap]
              ELSE [ok |-> TRUE, buff |-> new_buff.buff,
                    handle |-> new_buff.handle,
                    heap |-> GapBuffer_destroy(ref.buff, ref.handle,
                                               new_buff.heap)]
    ELSE [ok |-> TRUE, buff |-> ref.buff, handle |-> ref.handle,
          heap |-> ref.heap]

\* A GapBuffer** argument is a record ref = [buff: the struct *ref points to,
\* handle: the pointer *ref, heap: the live malloc'd regions].  The result is
\* the same record after the call, with ok: the return value.
ensureSpace(ref, min, malloc_ok, junk) ==
    IF ref.buff.gap_length < min
    THEN IF ref.buff.no_resize
         THEN [ok |-> FALSE, buff |-> ref.buff, handle |-> ref.handle,
               heap |-> ref.heap]
         ELSE LET new_buff == growGap(ref, min, malloc_ok, junk) IN
              IF new_buff = NULL
              THEN [ok |-> FALSE, buff |-> ref.buff, handle |-> ref.handle,
                    heap |-> ref.heap]
              ELSE [ok |-> TRUE, buff |-> new_buff.buff,
                    handle |-> new_buff.handle,
                    heap |-> GapBuffer_destroy(ref.buff, ref.handle,
                                               new_buff.heap)]
    ELSE [ok |-> TRUE, buff |-> ref.buff, handle |-> ref.handle,
          heap |-> ref.heap]

\* insertBytesBeforeCursor leaving the cursor before the inserted bytes.
insertBytesBeforeCursor_cursorStays(ref, str, malloc_ok, junk) ==
    LET e == ensureSpace(ref, Len(str), malloc_ok, junk) IN
    IF ~e.ok THEN e
    ELSE [e EXCEPT !.buff =
             [e.buff EXCEPT
                 !.data = memcpy(@, e.buff.gap_offset, str),
                 !.gap_length = @ - Len(str)]]

insertBytesBeforeCursor(ref, str, malloc_ok, junk) ==
    LET e == ensureSpace(ref, Len(str), malloc_ok, junk) IN
    IF ~e.ok THEN e
    ELSE [e EXCEPT !.buff =
             [e.buff EXCEPT
                 !.data = memcpy(@, e.buff.gap_offset, str),
                 !.gap_offset = @ + Len(str),
                 !.gap_length = @ - Len(str)]]

insertBytesAfterCursor(ref, str, malloc_ok, junk) ==
    LET e == ensureSpace(ref, Len(str), malloc_ok, junk) IN
    IF ~e.ok THEN e
    ELSE [e EXCEPT !.buff =
             [e.buff EXCEPT
                 !.data = memcpy(@, e.buff.gap_offset + e.buff.gap_length
                                     - Len(str), str),
                 !.gap_length = @ - Len(str)]]

\* growGap asking for the bytes that are wanted and no more.
growGap_exactFit(ref, min, malloc_ok, junk) ==
    LET capacity == ref.buff.total + min
        new_buff == GapBuffer_create(capacity, ref.heap, malloc_ok, junk)
    IN  IF new_buff = NULL THEN NULL
        ELSE LET r1 == insertBytesBeforeCursor(new_buff,
                            getStringBeforeGap(ref.buff), malloc_ok, junk)
                 r2 == insertBytesAfterCursor(r1,
                            getStringAfterGap(ref.buff), malloc_ok, junk)
             IN  IF ~r1.ok \/ ~r2.ok THEN NULL
                 ELSE [buff |-> r2.buff, handle |-> r2.handle, heap |-> r2.heap]

\* NULL, or the new buffer as GapBuffer_create gives it, filled.
growGap(ref, min, malloc_ok, junk) ==
    LET capacity == MAX(2 * ref.buff.total, ref.buff.total + min)
        new_buff == GapBuffer_create(capacity, ref.heap, malloc_ok, junk)
    IN  IF new_buff = NULL THEN NULL
        ELSE LET r1 == insertBytesBeforeCursor(new_buff,
                            getStringBeforeGap(ref.buff), malloc_ok, junk)
                 r2 == insertBytesAfterCursor(r1,
                            getStringAfterGap(ref.buff), malloc_ok, junk)
             IN  IF ~r1.ok \/ ~r2.ok THEN NULL
                 ELSE [buff |-> r2.buff, handle |-> r2.handle, heap |-> r2.heap]

\* The test of the top bit alone: every byte of a multi-byte symbol passes,
\* the first one too.
isSymbolAuxiliaryByte_topBit(byte) == byte >= 128

\* The test with the mask 0xF0: only 1000xxxx passes.
isSymbolAuxiliaryByte_maskF0(byte) == byte \div 16 = 8

\* (byte & 0xC0) == 0x80
isSymbolAuxiliaryByte(byte) == (byte \div 64) % 4 = 2

\* [n: the return value, rune: the value stored in *rune, -1 when none is]
getSymbolRune(sym) ==
    LET symlen == Len(sym) IN
    IF symlen = 0 THEN [n |-> 0, rune |-> -1]
    ELSE IF (At(sym, 0) \div 128) % 2 = 1
    THEN IF At(sym, 0) >= 240
         THEN IF symlen < 4 THEN [n |-> -1, rune |-> -1]
              ELSE IF \/ ~isSymbolAuxiliaryByte(At(sym, 1))
                      \/ ~isSymbolAuxiliaryByte(At(sym, 2))
                      \/ ~isSymbolAuxiliaryByte(At(sym, 3))
              THEN [n |-> -1, rune |-> -1]
              ELSE LET temp == (At(sym, 0) % 8) * 262144
                             + (At(sym, 1) % 64) * 4096
                             + (At(sym, 2) % 64) * 64
                             + (At(sym, 3) % 64)
                   IN  IF temp < 65536 \/ temp > 1114111
                       THEN [n |-> -1, rune |-> -1]
                       ELSE [n |-> 4, rune |-> temp]
         ELSE IF At(sym, 0) >= 224
         THEN IF symlen < 3 THEN [n |-> -1, rune |-> -1]
              ELSE IF \/ ~isSymbolAuxiliaryByte(At(sym, 1))
                      \/ ~isSymbolAuxiliaryByte(At(sym, 2))
              THEN [n |-> -1, rune |-> -1]
              ELSE LET temp == (At(sym, 0) % 16) * 4096
                             + (At(sym, 1) % 64) * 64
                             + (At(sym, 2) % 64)
                   IN  IF temp < 2048 \/ temp > 65535
                       THEN [n |-> -1, rune |-> -1]
                       ELSE [n |-> 3, rune |-> temp]
         ELSE IF At(sym, 0) >= 192
         THEN IF symlen < 2 THEN [n |-> -1, rune |-> -1]
              ELSE IF ~isSymbolAuxiliaryByte(At(sym, 1))
              THEN [n |-> -1, rune |-> -1]
              ELSE LET temp == (At(sym, 0) % 32) * 64 + (At(sym, 1) % 64) IN
                   IF temp < 128 \/ temp > 2047
                   THEN [n |-> -1, rune |-> temp]
                   ELSE [n |-> 2, rune |-> temp]
         ELSE [n |-> -1, rune |-> -1]
    ELSE [n |-> 1, rune |-> At(sym, 0)]

\* A validation loop that accepts every string.
validate_acceptingAll(str, i) == TRUE

\* The validation loop of GapBuffer_insertString, from offset i on.
RECURSIVE validate(_, _)
validate(str, i) ==
    IF i < Len(str)
    THEN LET n == getSymbolRune(SubSeq(str, i + 1, Len(str))).n IN
         IF n < 0 THEN FALSE ELSE validate(str, i + n)
    ELSE TRUE

GapBuffer_insertString(ref, str, malloc_ok, junk) ==
    IF ~validate(str, 0)
    THEN [ok |-> FALSE, buff |-> ref.buff, handle |-> ref.handle,
          heap |-> ref.heap]
    ELSE insertBytesBeforeCursor(ref, str, malloc_ok, junk)

\* The do-while of getPrecedingSymbol stepping back one byte only.
consumeAuxiliary_oneByte(buff, i) == IF ~(i > 0) THEN -1 ELSE i - 1

\* The do-while of getPrecedingSymbol; -1 when assert(i > 0) fails.
RECURSIVE consumeAuxiliary(_, _)
consumeAuxiliary(buff, i) ==
    IF ~(i > 0) THEN -1
    ELSE IF isSymbolAuxiliaryByte(At(buff.data, i - 1))
         THEN consumeAuxiliary(buff, i - 1)
         ELSE i - 1

RECURSIVE precedingFrom(_, _, _)
precedingFrom(buff, num, i) ==
    IF num > 0 /\ i > 0
    THEN LET j == consumeAuxiliary(buff, i) IN
         IF j < 0 THEN -1 ELSE precedingFrom(buff, num - 1, j)
    ELSE i

\* getPrecedingSymbol going back one byte for each codepoint asked for.
getPrecedingSymbol_countingBytes(buff, num) ==
    IF buff.gap_offset > num THEN buff.gap_offset - num ELSE 0

\* The offset reached, or -1 when assert(i > 0) fails.
getPrecedingSymbol(buff, num) == precedingFrom(buff, num, buff.gap_offset)

\* getSymbolLengthFromFirstByte taking every byte for a whole symbol.
getSymbolLengthFromFirstByte_alwaysOne(first) == 1

getSymbolLengthFromFirstByte(first) ==
    IF first >= 240 THEN 4
    ELSE IF first >= 224 THEN 3
    ELSE IF first >= 192 THEN 2
    ELSE 1

\* The loop of getFollowingSymbol leaving after the first symbol.
followingFrom_stoppingAtFirst(buff, num, i) ==
    IF num > 0 /\ i < buff.total
    THEN i + getSymbolLengthFromFirstByte(At(buff.data, i))
    ELSE i

RECURSIVE followingFrom(_, _, _)
followingFrom(buff, num, i) ==
    IF num > 0 /\ i < buff.total
    THEN followingFrom(buff, num - 1,
                       i + getSymbolLengthFromFirstByte(At(buff.data, i)))
    ELSE i

\* getFollowingSymbol advancing one byte for each codepoint asked for.
getFollowingSymbol_countingBytes(buff, num) ==
    LET i == buff.gap_offset + buff.gap_length + num IN
    IF i < buff.total THEN i ELSE buff.total

getFollowingSymbol(buff, num) ==
    followingFrom(buff, num, buff.gap_offset + buff.gap_length)

\* GapBuffer_removeForwards giving up the capacity of the bytes it removes.
GapBuffer_removeForwards_shrinking(buff, num) ==
    LET i == getFollowingSymbol(buff, num) IN
    [buff EXCEPT !.gap_length = i - buff.gap_offset,
                 !.total = @ - (i - buff.gap_offset - buff.gap_length)]

\* GapBuffer_removeForwards forgetting to subtract gap_offset.
GapBuffer_removeForwards_absoluteLength(buff, num) ==
    LET i == getFollowingSymbol(buff, num) IN
    [buff EXCEPT !.gap_length = i]

GapBuffer_removeForwards(buff, num) ==
    LET i == getFollowingSymbol(buff, num) IN
    [buff EXCEPT !.gap_length = i - buff.gap_offset]

\* GapBuffer_removeBackwards moving the cursor without widening the gap.
GapBuffer_removeBackwards_gapNotWidened(buff, num) ==
    LET i == getPrecedingSymbol(buff, num) IN
    IF i < 0 THEN Abort
    ELSE [buff EXCEPT !.gap_offset = i]

\* GapBuffer_removeBackwards removing one codepoint at the most.
GapBuffer_removeBackwards_oneSymbol(buff, num) ==
    LET i == getPrecedingSymbol(buff, IF num > 1 THEN 1 ELSE num) IN
    IF i < 0 THEN Abort
    ELSE [buff EXCEPT !.gap_length = @ + buff.gap_offset - i,
                      !.gap_offset = i]

GapBuffer_removeBackwards(buff, num) ==
    LET i == getPrecedingSymbol(buff, num) IN
    IF i < 0 THEN Abort
    ELSE [buff EXCEPT !.gap_length = @ + buff.gap_offset - i,
                      !.gap_offset = i]

\* moveBytesAfterGap moving the cursor and leaving the bytes where they are.
moveBytesAfterGap_cursorOnly(buff, num) ==
    IF ~(/\ num >= 0
         /\ buff.gap_offset >= num
         /\ buff.gap_offset <= buff.total
         /\ buff.gap_offset + buff.gap_length <= buff.total)
    THEN Abort
    ELSE [buff EXCEPT !.gap_offset = @ - num]

\* num is a size_t: a negative num stands for a wrapped-around, huge one.
moveBytesAfterGap(buff, num) ==
    IF ~(/\ num >= 0
         /\ buff.gap_offset >= num
         /\ buff.gap_offset <= buff.total
         /\ buff.gap_offset + buff.gap_length <= buff.total)
    THEN Abort
    ELSE [buff EXCEPT
             !.data = memmove(@, buff.gap_offset + buff.gap_length - num,
                              buff.gap_offset - num, num),
             !.gap_offset = @ - num]

moveBytesBeforeGap(buff, num) ==
    IF ~(/\ num >= 0
         /\ buff.total - buff.gap_offset - buff.gap_length >= num
         /\ buff.gap_offset <= buff.total
         /\ buff.gap_offset + buff.gap_length <= buff.total)
    THEN Abort
    ELSE [buff EXCEPT
             !.data = memmove(@, buff.gap_offset,
                              buff.gap_offset + buff.gap_length, num),
             !.gap_offset = @ + num]

\* GapBuffer_moveRelative moving the bytes the same way for either sign.
GapBuffer_moveRelative_oneDirection(buff, off) ==
    IF off < 0
    THEN LET i == getPrecedingSymbol(buff, -off) IN
         IF i < 0 THEN Abort
         ELSE moveBytesBeforeGap(buff, buff.gap_offset - i)
    ELSE LET i == getFollowingSymbol(buff, off) IN
         moveBytesBeforeGap(buff, i - buff.gap_offset - buff.gap_length)

GapBuffer_moveRelative(buff, off) ==
    IF off < 0
    THEN LET i == getPrecedingSymbol(buff, -off) IN
         IF i < 0 THEN Abort
         ELSE moveBytesAfterGap(buff, buff.gap_offset - i)
    ELSE LET i == getFollowingSymbol(buff, off) IN
         moveBytesBeforeGap(buff, i - buff.gap_offset - buff.gap_length)

\* The loop of GapBuffer_moveAbsolute without the jump over the gap.
RECURSIVE absoluteFrom_withoutJump(_, _, _)
absoluteFrom_withoutJump(buff, num, i) ==
    IF num > 0 /\ i < buff.total
    THEN absoluteFrom_withoutJump(buff, num - 1,
             i + getSymbolLengthFromFirstByte(At(buff.data, i)))
    ELSE i

\* The while loop of GapBuffer_moveAbsolute.
RECURSIVE absoluteFrom(_, _, _)
absoluteFrom(buff, num, i) ==
    IF num > 0 /\ i < buff.total
    THEN LET j == i + getSymbolLengthFromFirstByte(At(buff.data, i)) IN
         absoluteFrom(buff, num - 1,
                      IF j = buff.gap_offset THEN j + buff.gap_length ELSE j)
    ELSE i

\* GapBuffer_moveAbsolute counting the codepoints from the cursor on.
GapBuffer_moveAbsolute_fromCursor(buff, num) ==
    LET i == absoluteFrom(buff, num, buff.gap_offset + buff.gap_length)
    IN  moveBytesBeforeGap(buff, i - buff.gap_offset - buff.gap_length)

GapBuffer_moveAbsolute(buff, num) ==
    LET i == absoluteFrom(buff, num,
                          IF buff.gap_offset > 0 THEN 0 ELSE buff.gap_length)
    IN  IF i <= buff.gap_offset
        THEN moveBytesAfterGap(buff, buff.gap_offset - i)
        ELSE moveBytesBeforeGap(buff, i - buff.gap_offset - buff.gap_length)

\* The number of bytes GapBuffer_moveAbsolute hands to moveBytesAfterGap or
\* to moveBytesBeforeGap.
moveAbsoluteBytes(buff, num) ==
    LET i == absoluteFrom(buff, num,
                          IF buff.gap_offset > 0 THEN 0 ELSE buff.gap_length)
    IN  IF i <= buff.gap_offset
        THEN buff.gap_offset - i
        ELSE i - buff.gap_offset - buff.gap_length

-----------------------------------------------------------------------------
\* The line iterator.  A GapBufferIter is a record of its fields: buff (the
\* address of the buffer), crossed_gap, cur, mem (NULL or [block: the address
\* of a block]) and maybe (SizeofMaybe bytes), and block: the bytes of the
\* block mem points to.  A GapBufferLine is [str, len], str being a pointer: the
\* memory it points into ("data", "maybe" or "mem") and the offset there.

\* A struct the caller has declared and nothing has written to yet.
Uninitialized == [uninitialized |-> TRUE]

\* GapBufferIter_init writes every field except maybe, which keeps the bytes
\* the caller's memory held.
GapBufferIter_init(h, junk) ==
    [buff |-> h, crossed_gap |-> FALSE, cur |-> 0, mem |-> NULL,
     block |-> <<>>, maybe |-> [k \in 1..SizeofMaybe |-> junk]]

\* GapBufferIter_free forgetting to reset the pointer.
GapBufferIter_free_keepingPointer(it, hp) ==
    IF it.mem # NULL
    THEN [iter |-> it, heap |-> hp \ {it.mem.block},
          double_free |-> it.mem.block \notin hp]
    ELSE [iter |-> it, heap |-> hp, double_free |-> FALSE]

\* [iter: the iterator after the call, heap: the heap after it, double_free:
\* whether it handed to free() a block that was not live]
GapBufferIter_free(it, hp) ==
    IF it.mem # NULL
    THEN [iter |-> [it EXCEPT !.mem = NULL, !.block = <<>>],
          heap |-> hp \ {it.mem.block},
          double_free |-> it.mem.block \notin hp]
    ELSE [iter |-> it, heap |-> hp, double_free |-> FALSE]

\* The first statement of GapBufferIter_next: the same release.
releaseBlock(it, hp) ==
    IF it.mem # NULL
    THEN [iter |-> [it EXCEPT !.mem = NULL, !.block = <<>>],
          heap |-> hp \ {it.mem.block},
          double_free |-> it.mem.block \notin hp]
    ELSE [iter |-> it, heap |-> hp, double_free |-> FALSE]

\* while (i < limit && data[i] != '\n') i++;
\* The value of i after the loop: the first offset from i on that holds a
\* '\n', or limit when there is none before it.
scanLine(d, i, limit) ==
    LET newlines == {j \in i..(limit - 1) : At(d, j) = 10} IN
    IF newlines = {} THEN MAX(i, limit)
    ELSE CHOOSE j \in newlines : \A k \in newlines : j <= k

\* The two copies of a line split by the gap, the second one landing on the
\* first.
copyFragments_secondOverFirst(dest, line_length, first, second) ==
    memcpy(memcpy(dest, 0, first), 0, second)

\* memcpy(dest, first); memcpy(dest + line_length, second)
copyFragments(dest, line_length, first, second) ==
    memcpy(memcpy(dest, 0, first), line_length, second)

\* The result of a call of GapBufferIter_next: ret (the return value), iter,
\* line and heap after it, path (the branch taken), double_free as above,
\* overrun (the number of bytes written past the end of maybe).
NextResult(ret, it, ln, hp, path, double_free, overrun) ==
    [ret |-> ret, iter |-> it, line |-> ln, heap |-> hp, path |-> path,
     double_free |-> double_free, overrun |-> overrun]

\* return false, forgetting where the iterator was.
noMoreLines_rewinding(f, ln, path) ==
    NextResult(FALSE, [f.iter EXCEPT !.cur = 0, !.crossed_gap = FALSE], ln,
               f.heap, path, f.double_free, 0)

\* return false: iter->cur, iter->crossed_gap and *line are not written.
noMoreLines(f, ln, path) ==
    NextResult(FALSE, f.iter, ln, f.heap, path, f.double_free, 0)

\* The branch taken once the gap has been crossed, leaving the '\n' that ends
\* the line where it is.
nextAfterGap_withoutConsuming(f, ln, buff) ==
    LET line_offset == f.iter.cur
        i == scanLine(buff.data, f.iter.cur, buff.total)
        line_length == i - line_offset
    IN  IF ~(i < buff.total) /\ line_length = 0
        THEN noMoreLines(f, ln, "end_after_gap")
        ELSE NextResult(TRUE, [f.iter EXCEPT !.cur = i],
                 [str |-> <<"data", line_offset>>, len |-> line_length],
                 f.heap, "after_gap", f.double_free, 0)

\* The branch taken once the gap has been crossed, clearing the flag when it
\* yields a line.
nextAfterGap_clearingFlag(f, ln, buff) ==
    LET line_offset == f.iter.cur
        i == scanLine(buff.data, f.iter.cur, buff.total)
        line_length == i - line_offset
    IN  IF ~(i < buff.total) /\ line_length = 0
        THEN noMoreLines(f, ln, "end_after_gap")
        ELSE NextResult(TRUE,
                 [f.iter EXCEPT !.cur = IF i < buff.total THEN i + 1 ELSE i,
                                !.crossed_gap = FALSE],
                 [str |-> <<"data", line_offset>>, len |-> line_length],
                 f.heap, "after_gap", f.double_free, 0)

\* The branch of GapBufferIter_next taken once the gap has been crossed.
nextAfterGap(f, ln, buff) ==
    LET line_offset == f.iter.cur
        i == scanLine(buff.data, f.iter.cur, buff.total)
        line_length == i - line_offset
    IN  IF ~(i < buff.total) /\ line_length = 0
        THEN noMoreLines(f, ln, "end_after_gap")
        ELSE NextResult(TRUE,
                 [f.iter EXCEPT !.cur = IF i < buff.total THEN i + 1 ELSE i],
                 [str |-> <<"data", line_offset>>, len |-> line_length],
                 f.heap, "after_gap", f.double_free, 0)

\* The line split by the gap when its two fragments are longer than maybe and
\* malloc has returned NULL.
truncatedLine(f, buff, line_offset, line_length, line_offset_2, line_length_2, i) ==
    LET first == SubSeq(buff.data, line_offset + 1, line_offset + line_length)
        n == SizeofMaybe - line_length
        maybe == IF line_length > SizeofMaybe
                 THEN memcpy(f.iter.maybe, 0,
                             SubSeq(buff.data, line_offset + 1,
                                    line_offset + SizeofMaybe))
                 ELSE memcpy(memcpy(f.iter.maybe, 0, first), line_offset,
                             SubSeq(buff.data, line_offset_2 + 1,
                                    line_offset_2 + n))
        overrun == IF line_length > SizeofMaybe THEN 0
                   ELSE Cardinality({k \in 0..(n - 1) :
                                        line_offset + k >= SizeofMaybe})
    IN  NextResult(TRUE,
            [f.iter EXCEPT !.cur = i, !.crossed_gap = TRUE, !.maybe = maybe],
            [str |-> <<"maybe", 0>>, len |-> line_length + line_length_2],
            f.heap, "truncated", f.double_free, overrun)

\* The branch taken while the gap is ahead, asking malloc for a block already
\* when the line is as long as maybe.
nextBeforeGap_mallocAtCapacity(f, ln, buff, malloc_ok) ==
    LET line_offset == f.iter.cur
        i1 == scanLine(buff.data, f.iter.cur, buff.gap_offset)
        line_length == i1 - line_offset
    IN  IF i1 = buff.gap_offset
        THEN LET line_offset_2 == i1 + buff.gap_length
                 i2 == scanLine(buff.data, line_offset_2, buff.total)
                 line_length_2 == i2 - line_offset_2
                 i == IF i2 < buff.total THEN i2 + 1 ELSE i2
                 first == SubSeq(buff.data, line_offset + 1,
                                 line_offset + line_length)
                 second == SubSeq(buff.data, line_offset_2 + 1,
                                  line_offset_2 + line_length_2)
             IN  IF ~(i2 < buff.total) /\ line_length + line_length_2 = 0
                 THEN noMoreLines(f, ln, "end_at_gap")
                 ELSE IF line_length + line_length_2 >= SizeofMaybe
                 THEN IF ~malloc_ok
                      THEN truncatedLine(f, buff, line_offset, line_length,
                                         line_offset_2, line_length_2, i)
                      ELSE NextResult(TRUE,
                               [f.iter EXCEPT
                                   !.cur = i, !.crossed_gap = TRUE,
                                   !.mem = [block |-> malloc(f.heap)],
                                   \* every byte of the block is written
                                   !.block = copyFragments(
                                       [k \in 1..(line_length + line_length_2)
                                           |-> 0],
                                       line_length, first, second)],
                               [str |-> <<"mem", 0>>,
                                len |-> line_length + line_length_2],
                               f.heap \cup {malloc(f.heap)}, "malloc",
                               f.double_free, 0)
                 ELSE NextResult(TRUE,
                          [f.iter EXCEPT
                              !.cur = i, !.crossed_gap = TRUE,
                              !.maybe = copyFragments(@, line_length, first,
                                                      second)],
                          [str |-> <<"maybe", 0>>,
                           len |-> line_length + line_length_2],
                          f.heap, "maybe", f.double_free, 0)
        ELSE NextResult(TRUE, [f.iter EXCEPT !.cur = i1 + 1],
                        [str |-> <<"data", line_offset>>, len |-> line_length],
                        f.heap, "before_gap", f.double_free, 0)

\* The branch of GapBufferIter_next taken while the gap is ahead.
nextBeforeGap(f, ln, buff, malloc_ok) ==
    LET line_offset == f.iter.cur
        i1 == scanLine(buff.data, f.iter.cur, buff.gap_offset)
        line_length == i1 - line_offset
    IN  IF i1 = buff.gap_offset
        THEN LET line_offset_2 == i1 + buff.gap_length
                 i2 == scanLine(buff.data, line_offset_2, buff.total)
                 line_length_2 == i2 - line_offset_2
                 i == IF i2 < buff.total THEN i2 + 1 ELSE i2
                 first == SubSeq(buff.data, line_offset + 1,
                                 line_offset + line_length)
                 second == SubSeq(buff.data, line_offset_2 + 1,
                                  line_offset_2 + line_length_2)
             IN  IF ~(i2 < buff.total) /\ line_length + line_length_2 = 0
                 THEN noMoreLines(f, ln, "end_at_gap")
                 ELSE IF line_length + line_length_2 > SizeofMaybe
                 THEN IF ~malloc_ok
                      THEN truncatedLine(f, buff, line_offset, line_length,
                                         line_offset_2, line_length_2, i)
                      ELSE NextResult(TRUE,
                               [f.iter EXCEPT
                                   !.cur = i, !.crossed_gap = TRUE,
                                   !.mem = [block |-> malloc(f.heap)],
                                   \* every byte of the block is written
                                   !.block = copyFragments(
                                       [k \in 1..(line_length + line_length_2)
                                           |-> 0],
                                       line_length, first, second)],
                               [str |-> <<"mem", 0>>,
                                len |-> line_length + line_length_2],
                               f.heap \cup {malloc(f.heap)}, "malloc",
                               f.double_free, 0)
                 ELSE NextResult(TRUE,
                          [f.iter EXCEPT
                              !.cur = i, !.crossed_gap = TRUE,
                              !.maybe = copyFragments(@, line_length, first,
                                                      second)],
                          [str |-> <<"maybe", 0>>,
                           len |-> line_length + line_length_2],
                          f.heap, "maybe", f.double_free, 0)
        ELSE NextResult(TRUE, [f.iter EXCEPT !.cur = i1 + 1],
                        [str |-> <<"data", line_offset>>, len |-> line_length],
                        f.heap, "before_gap", f.double_free, 0)

\* bool GapBufferIter_next(GapBufferIter *iter, GapBufferLine *line), on the
\* buffer iter->buff points to.
GapBufferIter_next(it, ln, buff, hp, malloc_ok) ==
    LET f == releaseBlock(it, hp) IN
    IF f.iter.crossed_gap
    THEN nextAfterGap(f, ln, buff)
    ELSE nextBeforeGap(f, ln, buff, malloc_ok)

\* The bytes line->str[0] .. line->str[line->len - 1] as the caller reads
\* them; a byte read past the end of maybe is whatever lies there (junk).
LineBytes(ln, it, buff, junk) ==
    CASE ln.str[1] = "data" ->
             SubSeq(buff.data, ln.str[2] + 1, ln.str[2] + ln.len)
      [] ln.str[1] = "mem" -> SubSeq(it.block, 1, ln.len)
      [] OTHER ->
             IF ln.len <= SizeofMaybe THEN SubSeq(it.maybe, 1, ln.len)
             ELSE it.maybe \o [k \in 1..(ln.len - SizeofMaybe) |-> junk]

-----------------------------------------------------------------------------
\* The codepoints of a string, as the byte lengths getSymbolRune gives them.

RECURSIVE SymbolLengths(_)
SymbolLengths(s) ==
    IF s = <<>> THEN <<>>
    ELSE LET n == getSymbolRune(s).n IN
         IF n <= 0 THEN <<-1>>
         ELSE <<n>> \o SymbolLengths(SubSeq(s, n + 1, Len(s)))

RECURSIVE SumSeq(_)
SumSeq(q) == IF q = <<>> THEN 0 ELSE Head(q) + SumSeq(Tail(q))

Min(a, b) == IF a < b THEN a ELSE b

\* A concatenation of byte sequences each accepted by getSymbolRune.
IsUTF8(s) == \A k \in 1..Len(SymbolLengths(s)) : SymbolLengths(s)[k] > 0

CodepointCount(s) == Len(SymbolLengths(s))

\* The byte length of the first k codepoints of s, and of its last k.
PrefixBytes(s, k) == SumSeq(SubSeq(SymbolLengths(s), 1, k))
SuffixBytes(s, k) ==
    SumSeq(SubSeq(SymbolLengths(s), CodepointCount(s) - k + 1, CodepointCount(s)))

Before == getStringBeforeGap(Buff)
After == getStringAfterGap(Buff)
Content == Before \o After

-----------------------------------------------------------------------------

SetBuff(b) ==
    /\ is_static' = b.is_static
    /\ no_resize' = b.no_resize
    /\ gap_offset' = b.gap_offset
    /\ gap_length' = b.gap_length
    /\ total' = b.total
    /\ data' = b.data

\* The record kept of a call: its name, its return value (TRUE for a void
\* function), the path it took ("void" for a void function) and the number of
\* bytes it added to the text (negative when it removed some).
Call(op, ret, path, delta) ==
    [op |-> op, ret |-> ret, path |-> path, delta |-> delta]

\* Nothing to insert, nowhere to go.
Nothing == [strings |-> <<>>, back |-> 0]

\* The branches of GapBufferIter_next that copy a line lying on both sides of
\* the gap (src/gap_buffer.c:608-634).
StitchPaths == {"maybe", "malloc", "truncated"}

\* No line yielded, no false returned, no fault, no line copied across the
\* gap.
NoTrace == [lines |-> <<>>, falses |-> 0, faults |-> {}, stitches |-> 0]

\* getSymbolRune not called yet, on no bytes.
NoSymbol ==
    [sym |-> <<>>, rune |-> -1, called |-> FALSE, k |-> 0, rune2 |-> -1]

\* The caller's GapBuffer *gap_buffer, passed as &gap_buffer.
Ref == [buff |-> Buff, handle |-> handle, heap |-> heap]

\* Whether GapBuffer_insertString(str) reaches malloc: only a valid string
\* that does not fit the gap of a growable buffer does.
CallsMalloc(str) == validate(str, 0) /\ gap_length < Len(str) /\ ~no_resize

\* The path GapBuffer_insertString(str) takes through its returns.
InsertPath(str, malloc_ok) ==
    IF ~validate(str, 0) THEN "invalid"
    ELSE IF ~(gap_length < Len(str)) THEN "fits"
    ELSE IF no_resize THEN "no_resize"
    ELSE IF malloc_ok THEN "relocated"
    ELSE "malloc_failed"

Init ==
    /\ \E capacity \in 0..MaxCapacity, junk \in Junk :
         \/ LET b == GapBuffer_createUsingMemory([block |-> 0],
                                                 SizeofGapBuffer + capacity, junk)
            IN  /\ b # NULL
                /\ is_static = b.is_static
                /\ no_resize = b.no_resize
                /\ gap_offset = b.gap_offset
                /\ gap_length = b.gap_length
                /\ total = b.total
                /\ data = b.data
                /\ handle = 0
                /\ heap = {}
         \/ LET r == GapBuffer_create(capacity, {}, TRUE, junk)
            IN  /\ r # NULL
                /\ is_static = r.buff.is_static
                /\ no_resize = r.buff.no_resize
                /\ gap_offset = r.buff.gap_offset
                /\ gap_length = r.buff.gap_length
                /\ total = r.buff.total
                /\ data = r.buff.data
                /\ handle = r.handle
                /\ heap = r.heap
    /\ last = Call("create", TRUE, "void", 0)
    /\ net = 0
    /\ aborted = FALSE
    /\ iter = Uninitialized
    /\ line = Uninitialized
    /\ trace = NoTrace
    /\ todo = Nothing
    /\ symbol = NoSymbol

\* bool GapBuffer_insertString(GapBuffer **buff, const char *str, size_t len)
\* of one of the given strings, in a buffer that grows up to max bytes.
Insert(strings, max) ==
    /\ \E str \in strings, malloc_ok \in BOOLEAN, junk \in Junk :
         LET r == GapBuffer_insertString(Ref, str, malloc_ok, junk) IN
             \* malloc_ok and junk matter only to a call that reaches malloc
             /\ CallsMalloc(str) \/ (malloc_ok /\ junk = 0)
             /\ r.buff.total <= max
             /\ SetBuff(r.buff)
             /\ handle' = r.handle
             /\ heap' = r.heap
             /\ last' = Call("insertString", r.ok, InsertPath(str, malloc_ok),
                             IF r.ok THEN Len(str) ELSE 0)
             /\ net' = IF r.ok THEN net + Len(str) ELSE net
    /\ UNCHANGED <<aborted, iter, line, trace, todo, symbol>>

InsertString ==
    /\ ~aborted
    /\ Insert(Strings, MaxTotal)

\* The end of a call of a void function whose result is r (Abort when an
\* assert() failed) and which removed the given number of bytes of text.
Finish(op, r, removed) ==
    /\ IF r = Abort
       THEN /\ aborted' = TRUE
            /\ last' = Call(op, FALSE, "abort", 0)
            /\ UNCHANGED <<is_static, no_resize, gap_offset, gap_length, total,
                           data, net>>
       ELSE /\ SetBuff(r)
            /\ net' = net - removed
            /\ last' = Call(op, TRUE, "void", -removed)
            /\ UNCHANGED aborted
    /\ UNCHANGED <<handle, heap, iter, line, trace, todo, symbol>>

\* void GapBuffer_moveRelative(GapBuffer *buff, int off)
MoveRelative ==
    /\ ~aborted
    /\ \E off \in -MaxNum..MaxNum :
         Finish("moveRelative", GapBuffer_moveRelative(Buff, off), 0)

\* void GapBuffer_moveAbsolute(GapBuffer *buff, size_t num)
MoveAbsolute ==
    /\ ~aborted
    /\ \E num \in 0..MaxNum :
         Finish("moveAbsolute", GapBuffer_moveAbsolute(Buff, num), 0)

\* void GapBuffer_removeForwards(GapBuffer *buff, size_t num)
RemoveForwards ==
    /\ ~aborted
    /\ \E num \in 0..MaxNum :
         Finish("removeForwards", GapBuffer_removeForwards(Buff, num),
                PrefixBytes(After, Min(num, CodepointCount(After))))

\* void GapBuffer_removeBackwards(GapBuffer *buff, size_t num)
RemoveBackwards ==
    /\ ~aborted
    /\ \E num \in 0..MaxNum :
         Finish("removeBackwards", GapBuffer_removeBackwards(Buff, num),
                SuffixBytes(Before, Min(num, CodepointCount(Before))))

Next ==
    \/ InsertString
    \/ MoveRelative
    \/ MoveAbsolute
    \/ RemoveForwards
    \/ RemoveBackwards

Spec == Init /\ [][Next]_vars

-----------------------------------------------------------------------------
\* The traversal of a buffer by the line iterator: the caller fills the
\* buffer, string by string, and takes the cursor back to where it wants it;
\* then it initialises the iterator, advances it and frees it, the buffer
\* staying as it is.

Repeat(x, n) == [k \in 1..n |-> x]

RECURSIVE Flatten(_)
Flatten(strings) ==
    IF strings = <<>> THEN <<>> ELSE Head(strings) \o Flatten(Tail(strings))

\* The texts of 'a' and '\n' up to n bytes long.
RECURSIVE Texts(_)
Texts(n) ==
    IF n = 0 THEN {<<>>}
    ELSE Texts(n - 1) \cup
         {Append(t, c) : t \in {u \in Texts(n - 1) : Len(u) = n - 1},
                         c \in {97, 10}}

\* A short text with the cursor anywhere in it.
\* [strings: the strings inserted, back: the codepoints the cursor goes back]
ShortTexts ==
    { [strings |-> <<t>>, back |-> b] : t \in Texts(MaxText), b \in 0..MaxText }

\* U+10000, n times.
Symbols(n) == Flatten(Repeat(<<240, 144, 128, 128>>, n))

\* n bytes that hold no '\n', in strings of SizeofBuffer bytes at most:
\* U+10000 as many times as it fits, then 'a's.
Fragment(n) ==
    Repeat(Symbols(SizeofBuffer \div MaxSymbol), n \div SizeofBuffer)
        \o <<Symbols((n % SizeofBuffer) \div MaxSymbol)
                 \o Repeat(97, n % MaxSymbol)>>

\* A line that fills maybe or is a little longer, split by the cursor: first
\* bytes (U+10000s and 'a's) before it, second bytes ('b's) after it.  Before the
\* line there is nothing, a line "c", or a line that fills maybe but for one
\* byte; after it nothing, or a line "d".
LongTexts ==
    { [strings |-> head \o Fragment(first) \o <<Repeat(98, second) \o tail>>,
       back |-> second + Len(tail)] :
        head \in {<<>>, <<(<<99, 10>>)>>,
                  Fragment(SizeofMaybe - 1) \o <<(<<10>>)>>},
        tail \in {<<>>, <<10, 100>>},
        first \in {SizeofMaybe - MaxFragment + 1, SizeofMaybe + 1},
        second \in 0..MaxFragment }

\* What a byte that was never written may hold, '\n' included.
IterJunk == {0, 10}

\* A buffer fresh from GapBuffer_create, large enough for the text but for
\* at most MaxCapacity bytes.
IterInit ==
    /\ \E t \in ShortTexts \cup LongTexts, capacity \in 0..MaxCapacity,
          junk \in IterJunk :
         \E r \in {GapBuffer_create(Len(Flatten(t.strings)) + capacity,
                                    {}, TRUE, junk)} :
             /\ t.back <= CodepointCount(t.strings[Len(t.strings)])
             /\ r # NULL
             /\ is_static = r.buff.is_static
             /\ no_resize = r.buff.no_resize
             /\ gap_offset = r.buff.gap_offset
             /\ gap_length = r.buff.gap_length
             /\ total = r.buff.total
             /\ data = r.buff.data
             /\ handle = r.handle
             /\ heap = r.heap
             /\ todo = [strings |-> SelectSeq(t.strings, LAMBDA x : x # <<>>),
                        back |-> t.back]
    /\ last = Call("create", TRUE, "void", 0)
    /\ net = 0
    /\ aborted = FALSE
    /\ iter = Uninitialized
    /\ line = Uninitialized
    /\ trace = NoTrace
    /\ symbol = NoSymbol

\* GapBuffer_insertString of the next string.
IterFill ==
    /\ ~aborted
    /\ todo.strings # <<>>
    /\ \E r \in {GapBuffer_insertString(Ref, Head(todo.strings), TRUE, 0)} :
         /\ r.ok
         /\ SetBuff(r.buff)
         /\ handle' = r.handle
         /\ heap' = r.heap
         /\ last' = Call("insertString", r.ok, "fits", Len(Head(todo.strings)))
         /\ net' = net + Len(Head(todo.strings))
    /\ todo' = [todo EXCEPT !.strings = Tail(@)]
    /\ UNCHANGED <<aborted, iter, line, trace, symbol>>

\* GapBuffer_moveRelative towards the place of the cursor, MaxNum codepoints
\* at most.
IterPlace ==
    /\ ~aborted
    /\ todo.strings = <<>>
    /\ todo.back > 0
    /\ \E b \in {GapBuffer_moveRelative(Buff, -Min(todo.back, MaxNum))} :
         /\ b # Abort
         /\ SetBuff(b)
    /\ last' = Call("moveRelative", TRUE, "void", 0)
    /\ todo' = [todo EXCEPT !.back = @ - Min(@, MaxNum)]
    /\ UNCHANGED <<handle, heap, net, aborted, iter, line, trace, symbol>>

\* void GapBufferIter_init(GapBufferIter *iter, GapBuffer *buff)
IterStart ==
    /\ ~aborted
    /\ todo = Nothing
    /\ iter = Uninitialized
    /\ \E junk \in IterJunk : iter' = GapBufferIter_init(handle, junk)
    /\ last' = Call("iterInit", TRUE, "void", 0)
    /\ UNCHANGED <<is_static, no_resize, gap_offset, gap_length, total, data,
                   handle, heap, net, aborted, line, trace, todo, symbol>>

\* bool GapBufferIter_next(GapBufferIter *iter, GapBufferLine *line) and the
\* caller reading the line.  A write past the end of maybe is undefined
\* behaviour: the program dies of it, or goes on.
IterNext ==
    /\ ~aborted
    /\ iter # Uninitialized
    /\ trace.falses < MaxExhausted
    /\ \E malloc_ok \in BOOLEAN :
       \E r \in {GapBufferIter_next(iter, line, Buff, heap, malloc_ok)} :
       \E junk \in IterJunk, dies \in BOOLEAN :
           \* malloc_ok matters only to a call that reaches malloc, junk only
           \* to a read past the end of maybe, dies only to an overrun
           /\ r.path \in {"malloc", "truncated"} \/ malloc_ok
           /\ r.path = "truncated" \/ junk = 0
           /\ r.overrun > 0 \/ ~dies
           /\ iter' = r.iter
           /\ line' = r.line
           /\ heap' = r.heap
           /\ last' = Call("iterNext", r.ret, r.path, 0)
           /\ aborted' = dies
           /\ trace' =
                [lines |-> IF r.ret
                           THEN Append(trace.lines,
                                       LineBytes(r.line, r.iter, Buff, junk))
                           ELSE trace.lines,
                 falses |-> IF r.ret THEN trace.falses ELSE trace.falses + 1,
                 stitches |-> IF r.path \in StitchPaths
                              THEN trace.stitches + 1 ELSE trace.stitches,
                 faults |-> trace.faults
                     \cup (IF r.path = "truncated" THEN {"truncated"} ELSE {})
                     \cup (IF r.double_free THEN {"double_free"} ELSE {})
                     \cup (IF r.overrun > 0 THEN {"overrun"} ELSE {})
                     \cup (IF r.ret /\ r.line.str[1] = "maybe"
                              /\ r.line.len > SizeofMaybe
                           THEN {"overread"} ELSE {})]
    /\ UNCHANGED <<is_static, no_resize, gap_offset, gap_length, total, data,
                   handle, net, todo, symbol>>

\* void GapBufferIter_free(GapBufferIter *iter)
IterFree ==
    /\ ~aborted
    /\ iter # Uninitialized
    /\ \E f \in {GapBufferIter_free(iter, heap)} :
           /\ iter' = f.iter
           /\ heap' = f.heap
           /\ trace' = [trace EXCEPT !.faults =
                           @ \cup (IF f.double_free THEN {"double_free"}
                                   ELSE {})]
    /\ last' = Call("iterFree", TRUE,
                    IF iter.mem # NULL THEN "released" ELSE "nothing", 0)
    /\ UNCHANGED <<is_static, no_resize, gap_offset, gap_length, total, data,
                   handle, net, aborted, line, todo, symbol>>

IterStep ==
    \/ IterFill
    \/ IterPlace
    \/ IterStart
    \/ IterNext
    \/ IterFree

IterSpec == IterInit /\ [][IterStep]_vars

\* The traversal of a short text as the caller runs it: each call it has to
\* make, it makes; it calls GapBufferIter_next as long as it has not seen it
\* return false often enough.
ShortIterInit == IterInit /\ Len(data) <= MaxText + MaxCapacity

IterLive ==
    /\ ShortIterInit
    /\ [][IterStep]_vars
    /\ WF_vars(IterFill)
    /\ WF_vars(IterPlace)
    /\ WF_vars(IterStart)
    /\ WF_vars(IterNext)

-----------------------------------------------------------------------------
\* The decoder on its own: getSymbolRune given bytes of any kind, and given
\* the bytes generateUTF8String of the test makes out of a codepoint.

\* First bytes of every class, at the ends of each: 0xxxxxxx, 10xxxxxx,
\* 110xxxxx, 1110xxxx, 11110xxx and 11111xxx.
LeadBytes ==
    { 0, 65, 127, 128, 191, 192, 193, 194, 223, 224, 225, 237, 239,
      240, 241, 243, 244, 245, 247, 248, 251, 252, 254, 255 }

\* Following bytes: 10xxxxxx at the values where a sequence stops being
\* overlong or starts being too large, and the bytes next to 10xxxxxx.
TrailBytes == { 127, 128, 143, 144, 159, 160, 191, 192 }

\* The byte strings given to getSymbolRune: none, or a first byte followed
\* by MaxTail bytes at most.
Symbols_given ==
    {<<>>} \cup
    { <<lead>> \o tail : lead \in LeadBytes,
                         tail \in UNION { [1..m -> TrailBytes] : m \in 0..MaxTail } }

RECURSIVE Pow2(_)
Pow2(k) == IF k = 0 THEN 1 ELSE 2 * Pow2(k - 1)

\* The codepoints generateUTF8String draws for a symbol of num bytes: the
\* model takes the two ends of the range, the two ends of the surrogates and
\* the values around every power of two.
Runes(num) ==
    LET lo == CASE num = 1 -> 0 [] num = 2 -> 128 [] num = 3 -> 2048
                [] OTHER -> 65536
        hi == CASE num = 1 -> 127 [] num = 2 -> 2047 [] num = 3 -> 65535
                [] OTHER -> 1114111
    IN  { r \in {lo, hi, 55296, 57343} \cup
                 UNION { {Pow2(k) - 1, Pow2(k), Pow2(k) + 1} : k \in 0..20 } :
            lo <= r /\ r <= hi }

\* uint8_t temp[4] as generateUTF8String fills it for a symbol of num bytes.
encodeSymbol(num, rune) ==
    CASE num = 1 -> << rune % 256 >>
      [] num = 2 -> << ((rune \div 64) % 32) + 192,
                       (rune % 64) + 128 >>
      [] num = 3 -> << ((rune \div 4096) % 16) + 224,
                       ((rune \div 64) % 64) + 128,
                       (rune % 64) + 128 >>
      [] OTHER   -> << ((rune \div 262144) % 8) + 240,
                       ((rune \div 4096) % 64) + 128,
                       ((rune \div 64) % 64) + 128,
                       (rune % 64) + 128 >>

\* The buffer of the test, which the decoder does not touch.
CodecInit ==
    /\ \E r \in {GapBuffer_create(0, {}, TRUE, 0)} :
         /\ is_static = r.buff.is_static
         /\ no_resize = r.buff.no_resize
         /\ gap_offset = r.buff.gap_offset
         /\ gap_length = r.buff.gap_length
         /\ total = r.buff.total
         /\ data = r.buff.data
         /\ handle = r.handle
         /\ heap = r.heap
    /\ last = Call("create", TRUE, "void", 0)
    /\ net = 0
    /\ aborted = FALSE
    /\ iter = Uninitialized
    /\ line = Uninitialized
    /\ trace = NoTrace
    /\ todo = Nothing
    /\ \E sym \in Symbols_given : symbol = [NoSymbol EXCEPT !.sym = sym]

\* int getSymbolRune(const char *sym, size_t symlen, uint32_t *rune)
GetSymbolRune ==
    /\ ~aborted
    /\ ~symbol.called
    /\ \E r \in {getSymbolRune(symbol.sym)} :
         symbol' = [symbol EXCEPT !.called = TRUE, !.k = r.n, !.rune2 = r.rune]
    /\ last' = Call("getSymbolRune", TRUE, "void", 0)
    /\ UNCHANGED <<is_static, no_resize, gap_offset, gap_length, total, data,
                   handle, heap, net, aborted, iter, line, trace, todo>>

\* One turn of the loop of generateUTF8String: a codepoint is drawn, encoded
\* and decoded again, and the three assertions are made.  The loop starts
\* with no symbol and goes on from the symbol it made last.
GenerateSymbol ==
    /\ ~aborted
    /\ symbol = NoSymbol \/ symbol.rune # -1
    /\ \E num \in 1..MaxSymbol :
       \E rune \in Runes(num) :
       \E r \in {getSymbolRune(encodeSymbol(num, rune))} :
         /\ symbol' = [sym |-> encodeSymbol(num, rune), rune |-> rune,
                       called |-> TRUE, k |-> r.n, rune2 |-> r.rune]
         /\ aborted' = ~(r.n >= 0 /\ r.n = num /\ rune = r.rune)
    /\ last' = Call("generateUTF8String", TRUE, "void", 0)
    /\ UNCHANGED <<is_static, no_resize, gap_offset, gap_length, total, data,
                   handle, heap, net, iter, line, trace, todo>>

CodecNext ==
    \/ GetSymbolRune
    \/ GenerateSymbol

CodecSpec == CodecInit /\ [][CodecNext]_vars

-----------------------------------------------------------------------------
\* The life of a buffer, from before it is created to after it is destroyed.

\* No GapBuffer has been created: the caller has no handle and there is no
\* struct.
LifeInit ==
    /\ is_static = Uninitialized
    /\ no_resize = Uninitialized
    /\ gap_offset = Uninitialized
    /\ gap_length = Uninitialized
    /\ total = Uninitialized
    /\ data = Uninitialized
    /\ handle = NULL
    /\ heap = {}
    /\ last = Call("none", TRUE, "void", 0)
    /\ net = 0
    /\ aborted = FALSE
    /\ iter = Uninitialized
    /\ line = Uninitialized
    /\ trace = NoTrace
    /\ todo = Nothing
    /\ symbol = NoSymbol

\* The caller holds a buffer: one was created and has not been destroyed.
Alive ==
    /\ last.op \notin {"none", "destroy"}
    /\ last.op \in {"create", "createUsingMemory"} => last.ret

\* GapBuffer *GapBuffer_create(size_t capacity)
Create ==
    /\ last.op = "none"
    /\ \E capacity \in 0..MaxCapacity, malloc_ok \in BOOLEAN, junk \in Junk :
       \E r \in {GapBuffer_create(capacity, heap, malloc_ok, junk)} :
         \* junk matters only when there is memory
         /\ (malloc_ok /\ capacity > 0) \/ junk = 0
         /\ IF r = NULL
            THEN /\ last' = Call("create", FALSE, "malloc_failed", 0)
                 /\ UNCHANGED <<is_static, no_resize, gap_offset, gap_length,
                                total, data, handle, heap>>
            ELSE /\ SetBuff(r.buff)
                 /\ handle' = r.handle
                 /\ heap' = r.heap
                 /\ last' = Call("create", TRUE, "void", 0)
    /\ UNCHANGED <<net, aborted, iter, line, trace, todo, symbol>>

\* GapBuffer *GapBuffer_createUsingMemory(void *mem, size_t len)
CreateUsingMemory ==
    /\ last.op = "none"
    /\ \E mem \in {NULL, [block |-> 0]},
          len \in {0} \cup ((SizeofGapBuffer - 1)..(SizeofGapBuffer + MaxCapacity)),
          junk \in Junk :
       \E b \in {GapBuffer_createUsingMemory(mem, len, junk)} :
         \* junk matters only when there is memory
         /\ (b # NULL /\ len > SizeofGapBuffer) \/ junk = 0
         /\ IF b = NULL
            THEN /\ last' = Call("createUsingMemory", FALSE,
                                 IF mem = NULL THEN "no_memory" ELSE "too_small",
                                 0)
                 /\ UNCHANGED <<is_static, no_resize, gap_offset, gap_length,
                                total, data, handle>>
            ELSE /\ SetBuff(b)
                 /\ handle' = mem.block
                 /\ last' = Call("createUsingMemory", TRUE, "void", 0)
    /\ UNCHANGED <<heap, net, aborted, iter, line, trace, todo, symbol>>

\* void GapBuffer_destroy(GapBuffer *buff)
Destroy ==
    /\ Alive
    /\ ~aborted
    /\ heap' = GapBuffer_destroy(Buff, handle, heap)
    /\ last' = Call("destroy", TRUE, "void", 0)
    /\ UNCHANGED <<is_static, no_resize, gap_offset, gap_length, total, data,
                   handle, net, aborted, iter, line, trace, todo, symbol>>

\* The strings inserted in the life of a buffer: of 1, 2, 3 and 4 bytes, one
\* that is not UTF-8, and one with the first byte 0xF8.
LifeStrings ==
    { <<97>>, <<195, 128>>, <<226, 128, 128>>, <<240, 144, 128, 128>>,
      <<128>>, <<248, 144, 128, 128>> }

LifeInsertString ==
    /\ Alive
    /\ ~aborted
    /\ Insert(LifeStrings, MaxLife)

LifeMoveRelative == Alive /\ MoveRelative

LifeMoveAbsolute == Alive /\ MoveAbsolute

LifeRemoveForwards == Alive /\ RemoveForwards

LifeRemoveBackwards == Alive /\ RemoveBackwards

LifeNext ==
    \/ Create
    \/ CreateUsingMemory
    \/ LifeInsertString
    \/ LifeMoveRelative
    \/ LifeMoveAbsolute
    \/ LifeRemoveForwards
    \/ LifeRemoveBackwards
    \/ Destroy

LifeSpec == LifeInit /\ [][LifeNext]_vars

-----------------------------------------------------------------------------
TypeOK ==
    /\ is_static \in BOOLEAN
    /\ no_resize \in BOOLEAN
    /\ total \in 0..MaxTotal
    /\ Len(data) = total
    /\ aborted \in BOOLEAN

-----------------------------------------------------------------------------
\* The properties.  A property of a call is stated in every reachable state,
\* about the result the call gives from that state, for every argument.

\* Multi-byte text on both sides of a gap that is not empty.
MultiByteAround ==
    /\ gap_length > 0
    /\ Len(Before) > CodepointCount(Before)
    /\ Len(After) > CodepointCount(After)

\* C1: after creation and after any sequence of inserts (successful or not),
\* moves and removes, 0 <= gap_offset <= gap_offset + gap_length <= total.
C1_GapWithinBuffer ==
    /\ 0 <= gap_offset
    /\ gap_offset <= gap_offset + gap_length
    /\ gap_offset + gap_length <= total

\* A remove has left a gap with text on both sides of it.
C1_Witness ==
    /\ last.op = "removeForwards"
    /\ last.delta < 0
    /\ gap_offset > 0
    /\ gap_offset + gap_length < total

\* C2: in every reachable state the logical content, the bytes before the gap
\* followed by the bytes after it, is a concatenation of byte sequences each
\* accepted by getSymbolRune.
C2_ContentIsUTF8 == IsUTF8(Content)

\* An insert was rejected as invalid while the buffer held multi-byte text on
\* both sides of the gap.
C2_Witness ==
    /\ last.op = "insertString"
    /\ last.path = "invalid"
    /\ MultiByteAround

\* C3: in every reachable state the cursor is on a codepoint boundary: the
\* text before the gap alone and the text after the gap alone are
\* concatenations of byte sequences accepted by getSymbolRune, and the first
\* byte after the gap is no continuation byte.
C3_CursorOnBoundary ==
    /\ IsUTF8(Before)
    /\ IsUTF8(After)
    /\ After # <<>> => ~isSymbolAuxiliaryByte(After[1])

\* A move has put the cursor between two multi-byte codepoints.
C3_Witness ==
    /\ last.op \in {"moveRelative", "moveAbsolute"}
    /\ MultiByteAround

\* C4: when GapBuffer_insertString(S) returns true, the text before the
\* cursor is the old one followed by S, the text after the cursor is the old
\* one, and the byte count has grown by the length of S.
C4_InsertBeforeCursor ==
    \A str \in Strings, malloc_ok \in BOOLEAN, junk \in Junk :
        LET r == GapBuffer_insertString(Ref, str, malloc_ok, junk) IN
        r.ok =>
            /\ getStringBeforeGap(r.buff) = Before \o str
            /\ getStringAfterGap(r.buff) = After
            /\ getStringBeforeGap(r.buff) \o getStringAfterGap(r.buff)
                   = Before \o str \o After
            /\ GapBuffer_getByteCount(r.buff)
                   = GapBuffer_getByteCount(Buff) + Len(str)

\* An insert of several bytes has succeeded, with a relocation, between two
\* pieces of text.
C4_Witness ==
    /\ last.op = "insertString"
    /\ last.ret
    /\ last.path = "relocated"
    /\ last.delta > 1
    /\ Len(Before) > last.delta
    /\ After # <<>>

-----------------------------------------------------------------------------
\* Well-formed UTF-8 as the documentation of getSymbolRune and section 4.2 of
\* the specification give it: the lead byte gives the length (0xxxxxxx: 1,
\* 110xxxxx: 2, 1110xxxx: 3, 11110xxx: 4, anything else is no lead byte), the
\* other bytes are 10xxxxxx, and the value lies in the range of its length.

LeadLength(b) ==
    IF b < 128 THEN 1
    ELSE IF b >= 192 /\ b < 224 THEN 2
    ELSE IF b >= 224 /\ b < 240 THEN 3
    ELSE IF b >= 240 /\ b < 248 THEN 4
    ELSE 0

\* The value of the first n bytes of s read as one sequence of n bytes.
Value(s, n) ==
    LET lead == CASE n = 1 -> s[1]
                  [] n = 2 -> s[1] % 32
                  [] n = 3 -> s[1] % 16
                  [] OTHER -> s[1] % 8
        RECURSIVE tail(_)
        tail(k) == IF k = 1 THEN lead ELSE tail(k - 1) * 64 + (s[k] % 64)
    IN  tail(n)

InRange(n, v) ==
    CASE n = 1 -> v <= 127
      [] n = 2 -> v >= 128 /\ v <= 2047
      [] n = 3 -> v >= 2048 /\ v <= 65535
      [] OTHER -> v >= 65536 /\ v <= 1114111

RECURSIVE WellFormedUTF8(_)
WellFormedUTF8(s) ==
    \/ s = <<>>
    \/ LET n == LeadLength(s[1]) IN
       /\ n > 0
       /\ Len(s) >= n
       /\ \A k \in 2..n : s[k] >= 128 /\ s[k] < 192
       /\ InRange(n, Value(s, n))
       /\ WellFormedUTF8(SubSeq(s, n + 1, Len(s)))

\* C5: GapBuffer_insertString of a string that is not valid UTF-8 returns
\* false and leaves the buffer, the caller's handle and the heap as they were.
C5_InvalidStringRejected ==
    \A str \in Strings, malloc_ok \in BOOLEAN, junk \in Junk :
        LET r == GapBuffer_insertString(Ref, str, malloc_ok, junk) IN
        ~WellFormedUTF8(str) =>
            /\ ~r.ok
            /\ r.buff = Buff
            /\ r.handle = handle
            /\ r.heap = heap

\* What the code does do: a string its validation loop rejects changes
\* nothing.
C5_RejectedStringChangesNothing ==
    \A str \in Strings, malloc_ok \in BOOLEAN, junk \in Junk :
        LET r == GapBuffer_insertString(Ref, str, malloc_ok, junk) IN
        ~validate(str, 0) =>
            /\ ~r.ok
            /\ r.buff = Buff
            /\ r.handle = handle
            /\ r.heap = heap

-----------------------------------------------------------------------------
\* C6: on a buffer made by GapBuffer_createUsingMemory, GapBuffer_insertString
\* of a valid string longer than gap_length returns false and leaves
\* gap_offset, gap_length, total and the content as they were.
C6_FixedBufferRejectsOverflow ==
    \A str \in Strings, malloc_ok \in BOOLEAN, junk \in Junk :
        LET r == GapBuffer_insertString(Ref, str, malloc_ok, junk) IN
        (is_static /\ WellFormedUTF8(str) /\ Len(str) > gap_length) =>
            /\ ~r.ok
            /\ r.buff.gap_offset = gap_offset
            /\ r.buff.gap_length = gap_length
            /\ r.buff.total = total
            /\ getStringBeforeGap(r.buff) = Before
            /\ getStringAfterGap(r.buff) = After

\* A fixed buffer that holds text has refused a string for want of space.
C6_Witness ==
    /\ is_static
    /\ last.op = "insertString"
    /\ last.path = "no_resize"
    /\ ~last.ret
    /\ Content # <<>>

\* C7: on a growable buffer, when an insert needs a relocation and malloc
\* fails, the call returns false, the handle is the old one, the old region is
\* still live, and the buffer is as it was.
C7_FailedAllocationChangesNothing ==
    \A str \in Strings, junk \in Junk :
        LET r == GapBuffer_insertString(Ref, str, FALSE, junk) IN
        (~no_resize /\ WellFormedUTF8(str) /\ Len(str) > gap_length) =>
            /\ ~r.ok
            /\ r.handle = handle
            /\ handle \in r.heap
            /\ r.heap = heap
            /\ r.buff = Buff

\* A growable buffer that holds text around its cursor has failed to grow.
C7_Witness ==
    /\ ~no_resize
    /\ last.op = "insertString"
    /\ last.path = "malloc_failed"
    /\ ~last.ret
    /\ Before # <<>>
    /\ After # <<>>

\* C8: the byte count, total - gap_length, is the number of bytes of the
\* strings inserted with success minus the number of bytes of the codepoints
\* removed, and is never negative; failed inserts and moves count for nothing.
C8_ByteCountIsInsertedMinusRemoved ==
    /\ GapBuffer_getByteCount(Buff) = net
    /\ GapBuffer_getByteCount(Buff) >= 0

\* A remove has taken a multi-byte codepoint and left text behind.
C8_Witness ==
    /\ last.op = "removeBackwards"
    /\ last.delta < -1
    /\ net > 0

\* C9: GapBuffer_moveAbsolute(num) leaves min(num, N) codepoints before the
\* cursor, N being the number of codepoints of the content, wherever the gap
\* was.
C9_MoveAbsolute ==
    \A num \in 0..MaxNum :
        LET b == GapBuffer_moveAbsolute(Buff, num) IN
        /\ b # Abort
        /\ CodepointCount(getStringBeforeGap(b))
               = Min(num, CodepointCount(Content))

\* A moveAbsolute has put the cursor inside multi-byte text.
C9_Witness ==
    /\ last.op = "moveAbsolute"
    /\ last.ret
    /\ MultiByteAround

\* C10: with c codepoints before the cursor and N in all,
\* GapBuffer_moveRelative(off) leaves max(0, min(N, c + off)) codepoints
\* before the cursor.
C10_MoveRelative ==
    \A off \in -MaxNum..MaxNum :
        LET b == GapBuffer_moveRelative(Buff, off) IN
        /\ b # Abort
        /\ CodepointCount(getStringBeforeGap(b))
               = MAX(0, Min(CodepointCount(Content),
                            CodepointCount(Before) + off))

\* A moveRelative has put the cursor inside multi-byte text.
C10_Witness ==
    /\ last.op = "moveRelative"
    /\ last.ret
    /\ MultiByteAround

-----------------------------------------------------------------------------
\* What a move must leave alone: the content, the byte count, gap_length,
\* total and the two flags.
MoveFrame(b) ==
    /\ b # Abort
    /\ getStringBeforeGap(b) \o getStringAfterGap(b) = Content
    /\ GapBuffer_getByteCount(b) = GapBuffer_getByteCount(Buff)
    /\ b.gap_length = gap_length
    /\ b.total = total
    /\ b.is_static = is_static
    /\ b.no_resize = no_resize

\* C11: GapBuffer_moveRelative and GapBuffer_moveAbsolute change neither the
\* content nor the byte count, gap_length or total, also when more bytes cross
\* the gap than the gap is long and when the gap is empty.
C11_MovesKeepContent ==
    /\ \A off \in -MaxNum..MaxNum : MoveFrame(GapBuffer_moveRelative(Buff, off))
    /\ \A num \in 0..MaxNum : MoveFrame(GapBuffer_moveAbsolute(Buff, num))

\* A move has carried a multi-byte codepoint back across a gap of one byte:
\* the gap holds the stale lead byte of the codepoint that now follows it.
C11_Witness ==
    /\ last.op \in {"moveRelative", "moveAbsolute"}
    /\ last.ret
    /\ gap_length = 1
    /\ Before # <<>>
    /\ Len(After) >= 2
    /\ After[1] >= 192
    /\ At(data, gap_offset) = After[1]

\* C12: with A codepoints after the cursor, GapBuffer_removeForwards(num)
\* removes the first min(num, A) of them: gap_offset and the text before the
\* cursor stay, the text after the cursor loses those codepoints, and
\* gap_length grows by their byte length.
C12_RemoveForwards ==
    \A num \in 0..MaxNum :
        LET b == GapBuffer_removeForwards(Buff, num)
            bytes == PrefixBytes(After, Min(num, CodepointCount(After)))
        IN  /\ b.gap_offset = gap_offset
            /\ b.total = total
            /\ getStringBeforeGap(b) = Before
            /\ getStringAfterGap(b) = SubSeq(After, bytes + 1, Len(After))
            /\ b.gap_length = gap_length + bytes
            /\ num >= CodepointCount(After) => getStringAfterGap(b) = <<>>

\* A removeForwards has taken some of the codepoints after the cursor, a
\* multi-byte one among them, and left a multi-byte one.
C12_Witness ==
    /\ last.op = "removeForwards"
    /\ last.delta < -1
    /\ Before # <<>>
    /\ Len(After) > CodepointCount(After)

\* C13: with B codepoints before the cursor, GapBuffer_removeBackwards(num)
\* removes the last min(num, B) of them, whole: the text after the cursor and
\* total stay, gap_offset falls and gap_length grows by their byte length.
C13_RemoveBackwards ==
    \A num \in 0..MaxNum :
        LET b == GapBuffer_removeBackwards(Buff, num)
            bytes == SuffixBytes(Before, Min(num, CodepointCount(Before)))
        IN  /\ b # Abort
            /\ b.total = total
            /\ getStringAfterGap(b) = After
            /\ b.gap_offset = gap_offset - bytes
            /\ b.gap_length = gap_length + bytes
            /\ getStringBeforeGap(b) = SubSeq(Before, 1, Len(Before) - bytes)
            /\ IsUTF8(getStringBeforeGap(b))

\* A removeBackwards has taken a codepoint of four bytes from a text that
\* goes on, on both sides of the cursor.
C13_Witness ==
    /\ last.op = "removeBackwards"
    /\ last.delta = -4
    /\ At(data, gap_offset) = 240
    /\ Content # <<>>

\* C14: a valid string S inserted into an empty growable buffer, whatever its
\* capacity, is, after GapBuffer_moveAbsolute(0), the text before the gap
\* followed by the text after it.
C14_RoundTrip ==
    (~no_resize /\ Content = <<>>) =>
        \A str \in Strings, junk \in Junk :
            WellFormedUTF8(str) =>
                LET r == GapBuffer_insertString(Ref, str, TRUE, junk)
                    b == GapBuffer_moveAbsolute(r.buff, 0)
                IN  /\ r.ok
                    /\ b # Abort
                    /\ getStringBeforeGap(b) \o getStringAfterGap(b) = str
                    /\ getStringBeforeGap(b) = <<>>

\* A string of several codepoints was inserted into a growable buffer and the
\* cursor was taken to the start: the whole text is after the gap.
C14_Witness ==
    /\ ~no_resize
    /\ last.op = "moveAbsolute"
    /\ last.ret
    /\ gap_offset = 0
    /\ gap_length > 0
    /\ After = <<97, 195, 128>>
    /\ net = 3

\* C15: after GapBuffer_moveAbsolute(n), a GapBuffer_moveAbsolute(k), k being
\* the codepoint index the cursor is at, and a GapBuffer_moveAbsolute(n) again
\* move no byte and leave gap_offset, gap_length, total and the bytes as
\* they are.
C15_MoveAbsoluteIdempotent ==
    \A n \in 0..MaxNum :
        LET b == GapBuffer_moveAbsolute(Buff, n)
            k == CodepointCount(getStringBeforeGap(b))
        IN  /\ b # Abort
            /\ moveAbsoluteBytes(b, k) = 0
            /\ moveAbsoluteBytes(b, n) = 0
            /\ GapBuffer_moveAbsolute(b, k) = b
            /\ GapBuffer_moveAbsolute(b, n) = b

\* A moveAbsolute has left the cursor at the end of a multi-byte text of fewer
\* than MaxNum codepoints: moveAbsolute(MaxNum) asks for more than there is.
C15_Witness ==
    /\ last.op = "moveAbsolute"
    /\ last.ret
    /\ After = <<>>
    /\ gap_length > 0
    /\ Len(Before) > CodepointCount(Before)
    /\ CodepointCount(Before) < MaxNum

-----------------------------------------------------------------------------
\* The lines of a text: what lies between its '\n's, and after the last one
\* when that is not empty.

FirstNewline(s) ==
    IF \E k \in 1..Len(s) : s[k] = 10
    THEN CHOOSE k \in 1..Len(s) : s[k] = 10 /\ \A j \in 1..(k - 1) : s[j] # 10
    ELSE 0

RECURSIVE Split(_)
Split(s) ==
    IF s = <<>> THEN <<>>
    ELSE LET k == FirstNewline(s) IN
         IF k = 0 THEN <<s>>
         ELSE <<SubSeq(s, 1, k - 1)>> \o Split(SubSeq(s, k + 1, Len(s)))

\* C16: the lines GapBufferIter_next yields, one call after the other, are
\* the lines of the content, whatever the place and the length of the gap: at
\* any time the first ones of them, and all of them once it has returned
\* false.  (With every allocation it asks for granted: a line cut short for
\* want of memory is another matter.)
C16_LinesAreTheSplit ==
    "truncated" \notin trace.faults =>
        /\ Len(trace.lines) <= Len(Split(Content))
        /\ trace.lines = SubSeq(Split(Content), 1, Len(trace.lines))
        /\ trace.falses > 0 => trace.lines = Split(Content)

\* The iterator has gone through a text of two lines, the gap, which is not
\* empty, lying inside one of them.
C16_Witness ==
    /\ trace.falses > 0
    /\ Len(trace.lines) = 2
    /\ gap_length > 0
    /\ Before # <<>>
    /\ Before[Len(Before)] # 10
    /\ After # <<>>
    /\ After[1] # 10

\* The line a call of GapBufferIter_next has just yielded, whole.
FullLine == Split(Content)[Len(trace.lines)]

\* C17: when the line split by the gap is longer than maybe and malloc fails,
\* GapBufferIter_next returns true and yields a line cut to fit maybe: its
\* length is SizeofMaybe at most and its bytes are the first ones of the line.
C17_TruncatedLineFits ==
    (last.op = "iterNext" /\ last.path = "truncated") =>
        /\ last.ret
        /\ line.len <= SizeofMaybe
        /\ trace.lines[Len(trace.lines)] = SubSeq(FullLine, 1, line.len)

\* What the code does do: it returns true and yields maybe with the length of
\* the whole line.
C17_TruncatedLineKeepsLength ==
    (last.op = "iterNext" /\ last.path = "truncated") =>
        /\ last.ret
        /\ line.str = <<"maybe", 0>>
        /\ line.len = Len(FullLine)
        /\ line.len > SizeofMaybe

\* The blocks the iterator has obtained and not released.
IterBlocks == heap \ {handle}

\* C18: the iterator owns one block at most, the one iter->mem points to:
\* GapBufferIter_next has released the block of the line before when it
\* returns, GapBufferIter_free leaves no block, and no block is ever released
\* twice, wherever and however often GapBufferIter_free is called.
C18_AtMostOneBlock ==
    iter # Uninitialized =>
        /\ IterBlocks = IF iter.mem = NULL THEN {} ELSE {iter.mem.block}
        /\ "double_free" \notin trace.faults
        /\ last.op = "iterFree" => iter.mem = NULL /\ IterBlocks = {}
        /\ (last.op = "iterNext" /\ last.path # "malloc") => iter.mem = NULL
        /\ LET f == GapBufferIter_free(iter, heap)
               g == GapBufferIter_free(f.iter, f.heap)
           IN  /\ ~f.double_free
               /\ ~g.double_free
               /\ g.iter.mem = NULL
               /\ g.heap \ {handle} = {}

\* GapBufferIter_free has released the block of a line in the middle of a
\* traversal that went on afterwards.
C18_Witness ==
    /\ last.op = "iterNext"
    /\ last.path = "after_gap"
    /\ "truncated" \notin trace.faults
    /\ Len(trace.lines) >= 2
    /\ Len(trace.lines[Len(trace.lines) - 1]) > SizeofMaybe
    /\ IterBlocks = {}

\* C19: once GapBufferIter_next has returned false, it returns false again,
\* the buffer being as it was, whether the gap has been crossed or not.
C19_FalseForGood ==
    trace.falses > 0 =>
        \A malloc_ok \in BOOLEAN :
            ~GapBufferIter_next(iter, line, Buff, heap, malloc_ok).ret

\* GapBufferIter_next has returned false twice, without having crossed the
\* gap, after it had yielded lines.
C19_Witness ==
    /\ trace.falses = MaxExhausted
    /\ ~iter.crossed_gap
    /\ trace.lines # <<>>
    /\ last.op = "iterNext"
    /\ last.path = "end_at_gap"

-----------------------------------------------------------------------------
\* A byte that is no lead byte: 10xxxxxx or 11111xxx.
NoLeadByte(byte) == isSymbolAuxiliaryByte(byte) \/ byte >= 248

\* C20: getSymbolRune returns -1 for every input that starts with a
\* continuation byte or a byte >= 0xF8, and GapBuffer_insertString rejects
\* every string that starts with one.
C20_NoLeadByteRejected ==
    \A str \in Strings, malloc_ok \in BOOLEAN, junk \in Junk :
        (str # <<>> /\ NoLeadByte(str[1])) =>
            /\ getSymbolRune(str).n = -1
            /\ ~GapBuffer_insertString(Ref, str, malloc_ok, junk).ok

\* What the code does do: it returns -1 for every input that starts with a
\* continuation byte.
C20_ContinuationByteRejected ==
    \A str \in Strings, malloc_ok \in BOOLEAN, junk \in Junk :
        (str # <<>> /\ isSymbolAuxiliaryByte(str[1])) =>
            /\ getSymbolRune(str).n = -1
            /\ ~GapBuffer_insertString(Ref, str, malloc_ok, junk).ok


-----------------------------------------------------------------------------
\* The first symbol of s is well formed and n bytes long: the first byte
\* announces n, n bytes are there, the others are 10xxxxxx and the value is in
\* the range of n.
FirstSymbol(s, n) ==
    /\ n > 0
    /\ Len(s) >= n
    /\ \A k \in 2..n : s[k] >= 128 /\ s[k] < 192
    /\ InRange(n, Value(s, n))

\* C21: getSymbolRune returns 0 for no bytes; for some bytes it returns n in
\* 1..4 when the first byte announces n bytes (0xxxxxxx, 110xxxxx, 1110xxxx,
\* 11110xxx), n bytes are there, bytes 2..n are 10xxxxxx and the value is in
\* the range of n, and it returns -1 otherwise.
C21_ReturnsTheLengthAnnounced ==
    symbol.called =>
        IF symbol.sym = <<>> THEN symbol.k = 0
        ELSE IF FirstSymbol(symbol.sym, LeadLength(symbol.sym[1]))
        THEN symbol.k = LeadLength(symbol.sym[1])
        ELSE symbol.k = -1

\* The length the code takes a first byte to announce: 4 for 11111xxx too.
LengthTaken(b) == IF b >= 248 THEN 4 ELSE LeadLength(b)

\* What the code does do: the same with every first byte from 0xF0 up taken
\* for the first of 4 bytes, and the value stored is the value of the bytes.
C21_ReturnsTheLengthTaken ==
    symbol.called =>
        IF symbol.sym = <<>> THEN symbol.k = 0
        ELSE IF FirstSymbol(symbol.sym, LengthTaken(symbol.sym[1]))
        THEN /\ symbol.k = LengthTaken(symbol.sym[1])
             /\ symbol.rune2 = Value(symbol.sym, symbol.k)
        ELSE symbol.k = -1

-----------------------------------------------------------------------------
\* C22: for a codepoint of 0x0000-0x007F, 0x0080-0x07FF, 0x0800-0xFFFF or
\* 0x10000-0x10FFFF encoded in 1, 2, 3 or 4 bytes as generateUTF8String
\* encodes it, the bytes are well-formed UTF-8 of that value, getSymbolRune
\* returns their number, stores the codepoint, and no assertion of the test
\* fails.
C22_EncodeDecodeRoundTrip ==
    symbol.rune # -1 =>
        /\ WellFormedUTF8(symbol.sym)
        /\ Value(symbol.sym, Len(symbol.sym)) = symbol.rune
        /\ symbol.k >= 0
        /\ symbol.k = Len(symbol.sym)
        /\ symbol.rune2 = symbol.rune
        /\ ~aborted

\* The largest codepoint, 4 bytes long, has been encoded and decoded.
C22_Witness ==
    /\ symbol.rune = 1114111
    /\ symbol.sym = <<244, 143, 191, 191>>
    /\ symbol.k = 4
    /\ symbol.rune2 = 1114111


-----------------------------------------------------------------------------
\* An empty buffer of the given capacity with its gap at offset 0.
EmptyBuffer(b, capacity) ==
    /\ b.gap_offset = 0
    /\ b.gap_length = capacity
    /\ b.total = capacity
    /\ Len(b.data) = capacity
    /\ GapBuffer_getByteCount(b) = 0
    /\ getStringBeforeGap(b) \o getStringAfterGap(b) = <<>>

\* The values of len given to GapBuffer_createUsingMemory.
Lengths == {0} \cup ((SizeofGapBuffer - 1)..(SizeofGapBuffer + MaxCapacity))

\* C23: GapBuffer_create(capacity), when malloc succeeds, gives an empty
\* growable buffer with gap_offset = 0 and gap_length = total = capacity;
\* GapBuffer_createUsingMemory(mem, len) gives NULL when mem is NULL or len is
\* less than sizeof(GapBuffer), and otherwise an empty buffer that cannot grow
\* with gap_offset = 0 and gap_length = total = len - sizeof(GapBuffer).
C23_Creation ==
    /\ \A capacity \in 0..MaxCapacity, junk \in Junk :
         LET r == GapBuffer_create(capacity, heap, TRUE, junk) IN
         /\ r # NULL
         /\ EmptyBuffer(r.buff, capacity)
         /\ ~r.buff.no_resize
         /\ ~r.buff.is_static
    /\ \A mem \in {NULL, [block |-> 0]}, len \in Lengths, junk \in Junk :
         LET b == GapBuffer_createUsingMemory(mem, len, junk) IN
         IF mem = NULL \/ len < SizeofGapBuffer
         THEN b = NULL
         ELSE /\ b # NULL
              /\ EmptyBuffer(b, len - SizeofGapBuffer)
              /\ b.no_resize
              /\ b.is_static
    /\ (last.op \in {"create", "createUsingMemory"} /\ last.ret) =>
         /\ EmptyBuffer(Buff, total)
         /\ total \in 0..MaxCapacity
         /\ no_resize <=> last.op = "createUsingMemory"
         /\ is_static <=> last.op = "createUsingMemory"
    /\ (last.op \in {"create", "createUsingMemory"} /\ ~last.ret) =>
         /\ handle = NULL
         /\ heap = {}

\* GapBuffer_createUsingMemory has made a buffer out of memory that holds the
\* struct and nothing more.
C23_Witness ==
    /\ last.op = "createUsingMemory"
    /\ last.ret
    /\ total = 0
    /\ gap_length = 0
    /\ no_resize


-----------------------------------------------------------------------------
\* A buffer has been created, and perhaps destroyed since.
Created ==
    /\ last.op # "none"
    /\ last.op \in {"create", "createUsingMemory"} => last.ret

\* C24: free() is never given the caller's memory nor a region that is not
\* live (the heap is never corrupt); a buffer made from the caller's memory
\* never has a region of the heap, destroyed or not; a growable buffer has
\* exactly one live region, the one the caller's handle points to, until
\* GapBuffer_destroy, after which none is live; an insert that relocates
\* leaves the new region as the only live one, with the handle on it, and an
\* insert that does not leaves handle and heap alone.
C24_MemoryOwnership ==
    /\ Corrupt \notin heap
    /\ IF ~Created THEN heap = {}
       ELSE IF is_static THEN heap = {}
       ELSE IF last.op = "destroy" THEN heap = {}
       ELSE heap = {handle}
    /\ Alive =>
         /\ GapBuffer_destroy(Buff, handle, heap) = {}
         /\ \A str \in Strings, malloc_ok \in BOOLEAN, junk \in Junk :
              LET r == GapBuffer_insertString(Ref, str, malloc_ok, junk) IN
              /\ Corrupt \notin r.heap
              /\ IF InsertPath(str, malloc_ok) = "relocated"
                 THEN /\ r.ok
                      /\ r.handle # handle
                      /\ handle \notin r.heap
                      /\ r.heap = {r.handle}
                 ELSE /\ r.handle = handle
                      /\ r.heap = heap

\* A growable buffer that has moved to another region has been destroyed.
C24_Witness ==
    /\ last.op = "destroy"
    /\ ~is_static
    /\ handle = 2
    /\ heap = {}
    /\ Content # <<>>


-----------------------------------------------------------------------------
\* Every turn of the validation loop of GapBuffer_insertString either leaves
\* the loop or moves i forward, by 1 to 4 bytes and not past the end.
ValidationAdvances ==
    \A str \in Strings :
        \A i \in 0..(Len(str) - 1) :
            LET n == getSymbolRune(SubSeq(str, i + 1, Len(str))).n IN
            n < 0 \/ (n >= 1 /\ n <= MaxSymbol /\ i + n <= Len(str))

\* Every turn of the scans of the moves and removes moves i, and the scans
\* end inside the buffer, on the side of the gap they started on.
ScansAdvance ==
    /\ \A first \in 0..255 : getSymbolLengthFromFirstByte(first) >= 1
    /\ gap_offset > 0 =>
         /\ consumeAuxiliary(Buff, gap_offset) >= 0
         /\ consumeAuxiliary(Buff, gap_offset) < gap_offset
    /\ \A num \in 0..MaxNum :
         /\ getPrecedingSymbol(Buff, num) \in 0..gap_offset
         /\ getFollowingSymbol(Buff, num) \in (gap_offset + gap_length)..total
         /\ absoluteFrom(Buff, num, IF gap_offset > 0 THEN 0 ELSE gap_length)
                \in 0..total

\* Every call of GapBufferIter_next that returns true moves iter->cur
\* forward, no call moves it past the end, and one that returns false leaves
\* it; so the lines yielded are never more than the bytes of the text.
TraversalAdvances ==
    iter # Uninitialized =>
        /\ iter.cur \in 0..total
        /\ Len(trace.lines) <= GapBuffer_getByteCount(Buff)
        /\ \A malloc_ok \in BOOLEAN :
             LET r == GapBufferIter_next(iter, line, Buff, heap, malloc_ok) IN
             /\ r.iter.cur \in 0..total
             /\ IF r.ret THEN r.iter.cur > iter.cur
                ELSE r.iter.cur = iter.cur

\* C25: every operation terminates: the validation loop of
\* GapBuffer_insertString consumes at least one byte per turn, the scans of
\* the moves and removes are bounded by the buffer, every call of
\* GapBufferIter_next that returns true advances the read position, which
\* never passes the end, and the lines a traversal has yielded are at most as
\* many as the text has bytes.
C25_EveryLoopAdvances ==
    /\ ValidationAdvances
    /\ ScansAdvance
    /\ TraversalAdvances

\* The traversal of a text does come to a call that returns false.
C25_TraversalEnds == <>(trace.falses > 0)

\* A traversal has ended after as many lines as the text has bytes, two or
\* more, the gap lying between them.
C25_Witness ==
    /\ trace.falses > 0
    /\ Len(trace.lines) = GapBuffer_getByteCount(Buff)
    /\ Len(trace.lines) >= 2
    /\ gap_length > 0
    /\ gap_offset > 0
    /\ last.op = "iterNext"


-----------------------------------------------------------------------------
\* C26: an insert of a valid string relocates the buffer (malloc granting the
\* region) if and only if the buffer is growable and the string is longer
\* than the gap; one of a string that fits the gap, the string that fills it
\* exactly included, succeeds on fixed and growable buffers alike, whether
\* malloc would succeed or not, and leaves total, the handle and the heap as
\* they were.
C26_RelocatesOnlyWhenNeeded ==
    Alive =>
        \A str \in Strings, junk \in Junk :
            WellFormedUTF8(str) =>
                /\ LET r == GapBuffer_insertString(Ref, str, TRUE, junk) IN
                   /\ r.handle # handle <=>
                          (~no_resize /\ Len(str) > gap_length)
                   /\ r.buff.total # total <=> r.handle # handle
                /\ Len(str) <= gap_length =>
                     \A malloc_ok \in BOOLEAN :
                         LET r == GapBuffer_insertString(Ref, str, malloc_ok,
                                                         junk) IN
                         /\ r.ok
                         /\ r.buff.total = total
                         /\ r.buff.gap_length = gap_length - Len(str)
                         /\ r.handle = handle
                         /\ r.heap = heap

\* A growable buffer has taken, without relocating, a string of several bytes
\* that has filled its gap.
C26_Witness ==
    /\ last.op = "insertString"
    /\ last.path = "fits"
    /\ last.ret
    /\ ~no_resize
    /\ last.delta >= 2
    /\ gap_length = 0


-----------------------------------------------------------------------------
\* The capacity a buffer of the given capacity is to have after a relocation
\* for len bytes.
GrownCapacity(capacity, len) ==
    IF 2 * capacity >= capacity + len THEN 2 * capacity ELSE capacity + len

\* C27: when an insert of len bytes relocates a growable buffer (malloc
\* granting the region), the new buffer has total = max(2 * total, total +
\* len), the bytes before the cursor at its start and the bytes after the
\* cursor at its very end, unchanged, the gap_offset of the old one and a gap
\* of len bytes at least; and the insert then succeeds in it.
C27_Relocation ==
    Alive =>
        \A str \in Strings, junk \in Junk :
            InsertPath(str, TRUE) = "relocated" =>
                /\ LET g == growGap(Ref, Len(str), TRUE, junk) IN
                   /\ g # NULL
                   /\ g.buff.total = GrownCapacity(total, Len(str))
                   /\ Len(g.buff.data) = g.buff.total
                   /\ g.buff.gap_offset = gap_offset
                   /\ g.buff.gap_length >= Len(str)
                   /\ SubSeq(g.buff.data, 1, Len(Before)) = Before
                   /\ SubSeq(g.buff.data, g.buff.total - Len(After) + 1,
                             g.buff.total) = After
                   /\ getStringBeforeGap(g.buff) = Before
                   /\ getStringAfterGap(g.buff) = After
                /\ LET r == GapBuffer_insertString(Ref, str, TRUE, junk) IN
                   /\ r.ok
                   /\ r.buff.total = GrownCapacity(total, Len(str))
                   /\ r.buff.gap_offset = gap_offset + Len(str)
                   /\ getStringBeforeGap(r.buff) = Before \o str
                   /\ getStringAfterGap(r.buff) = After

\* A full buffer of 2 bytes, the cursor between them, has been relocated for
\* one byte more: to 4 bytes, for twice the capacity is the larger.
C27_Witness ==
    /\ last.op = "insertString"
    /\ last.path = "relocated"
    /\ last.ret
    /\ last.delta = 1
    /\ total = 4
    /\ Len(Before) = 2
    /\ Len(After) = 1


-----------------------------------------------------------------------------
\* The buffer b, the result of a call, has the flags and the capacity of the
\* buffer the call was made on.
SameCapacity(b) ==
    /\ b # Abort
    /\ b.is_static = is_static
    /\ b.no_resize = no_resize
    /\ b.total = total

\* C28: no operation changes is_static or no_resize; no operation makes total
\* smaller; total changes only in an insert that relocates with success, which
\* makes it larger, and so never in a buffer made from the caller's memory;
\* moves and removes leave total as it is.
C28_CapacityIsStable ==
    Alive =>
        /\ \A str \in Strings, malloc_ok \in BOOLEAN, junk \in Junk :
             LET r == GapBuffer_insertString(Ref, str, malloc_ok, junk) IN
             /\ r.buff.is_static = is_static
             /\ r.buff.no_resize = no_resize
             /\ r.buff.total >= total
             /\ r.buff.total # total =>
                  /\ r.ok
                  /\ InsertPath(str, malloc_ok) = "relocated"
                  /\ r.buff.total > total
                  /\ ~is_static
             /\ InsertPath(str, malloc_ok) = "relocated" =>
                  /\ r.buff.total > total
                  /\ ~r.buff.no_resize
        /\ \A off \in -MaxNum..MaxNum :
             SameCapacity(GapBuffer_moveRelative(Buff, off))
        /\ \A num \in 0..MaxNum :
             /\ SameCapacity(GapBuffer_moveAbsolute(Buff, num))
             /\ SameCapacity(GapBuffer_removeForwards(Buff, num))
             /\ SameCapacity(GapBuffer_removeBackwards(Buff, num))
        /\ is_static => total \in 0..MaxCapacity

\* A buffer that has been relocated, and is growable still, has had text
\* removed and kept its capacity.
C28_Witness ==
    /\ last.op = "removeForwards"
    /\ last.delta < 0
    /\ ~no_resize
    /\ ~is_static
    /\ handle = 2
    /\ total > MaxCapacity


-----------------------------------------------------------------------------
\* The bytes on the side of the gap that moveBytesBeforeGap takes from.
BytesAfterGap(buff) == buff.total - buff.gap_offset - buff.gap_length

-----------------------------------------------------------------------------
\* The bytes of s before its first '\n', all of s when it has none.
UpToNewline(s) ==
    IF FirstNewline(s) = 0 THEN s ELSE SubSeq(s, 1, FirstNewline(s) - 1)

\* The bytes between the iterator's read position and the gap.
BeforeFragment == SubSeq(data, iter.cur + 1, gap_offset)

\* The line the iterator is to read reaches the gap: the gap is ahead and no
\* '\n' lies between the read position and it.  A line that begins where the
\* gap begins reaches it too, with an empty fragment before the gap.
ReachesGap == ~iter.crossed_gap /\ FirstNewline(BeforeFragment) = 0

\* C30: GapBufferIter_next, malloc granting what it is asked, yields a line
\* that reaches the gap from the array maybe if and only if its fragment
\* before the gap and its fragment after the gap are SizeofMaybe (512) bytes
\* together at most, and otherwise from a block of exactly as many bytes as
\* the two; either way the bytes are the first fragment followed by the
\* second and the length is their sum.  Any other line is yielded as a slice
\* of the buffer: nothing is copied, nothing allocated.
C30_ScratchOrBlock ==
    (iter # Uninitialized /\ ~aborted) =>
        LET r == GapBufferIter_next(iter, line, Buff, heap, TRUE)
            sum == Len(BeforeFragment) + Len(UpToNewline(After))
        IN  r.ret =>
              IF ReachesGap
              THEN /\ r.line.str[1] = "maybe" <=> sum <= SizeofMaybe
                   /\ r.line.str[1] = "mem" <=> sum > SizeofMaybe
                   /\ r.line.str[2] = 0
                   /\ r.line.len = sum
                   /\ LineBytes(r.line, r.iter, Buff, 0)
                          = BeforeFragment \o UpToNewline(After)
                   /\ IF sum > SizeofMaybe
                      THEN /\ r.iter.mem # NULL
                           /\ Len(r.iter.block) = sum
                           /\ r.iter.mem.block \in r.heap
                           /\ r.iter.maybe = iter.maybe
                      ELSE /\ r.iter.mem = NULL
                           /\ r.heap \subseteq heap
              ELSE /\ r.line.str = <<"data", iter.cur>>
                   /\ r.iter.maybe = iter.maybe
                   /\ r.iter.mem = NULL
                   /\ r.heap \subseteq heap

\* A line of exactly SizeofMaybe bytes, part of it on each side of the gap,
\* has been yielded from the array.
C30_Witness ==
    /\ last.op = "iterNext"
    /\ last.path = "maybe"
    /\ last.ret
    /\ line.len = SizeofMaybe
    /\ line.str = <<"maybe", 0>>
    /\ gap_offset > 0
    /\ After # <<>>

-----------------------------------------------------------------------------
\* C31: every write GapBufferIter_next makes into the array maybe lands at
\* the offsets 0 .. SizeofMaybe - 1, whether the line fits the array or
\* malloc has failed, for every line start and every pair of fragment
\* lengths: no call writes a byte past the end of maybe.
C31_WritesStayInMaybe ==
    (iter # Uninitialized /\ ~aborted) =>
        \A malloc_ok \in BOOLEAN :
            GapBufferIter_next(iter, line, Buff, heap, malloc_ok).overrun = 0

\* What the code does do: the only writes past the end of maybe are those of
\* the second memcpy of a truncated line (src/gap_buffer.c:618), which lands
\* at maybe + line_offset; they happen exactly when the line starts further
\* into the buffer than its first fragment is long, and then
\* min(line_offset, SizeofMaybe) - line_length bytes are written outside.
C31_OnlyTheTruncatedLineOverruns ==
    (iter # Uninitialized /\ ~aborted) =>
        \A malloc_ok \in BOOLEAN :
            LET r == GapBufferIter_next(iter, line, Buff, heap, malloc_ok)
                line_length == Len(BeforeFragment)
            IN  /\ Len(r.iter.maybe) = SizeofMaybe
                /\ r.path # "truncated" => r.overrun = 0
                /\ r.path = "truncated" =>
                     r.overrun = IF line_length > SizeofMaybe
                                    \/ iter.cur <= line_length
                                 THEN 0
                                 ELSE Min(iter.cur, SizeofMaybe) - line_length

-----------------------------------------------------------------------------
\* The step is a call of GapBufferIter_next.
IsIterNext == last'.op = "iterNext" /\ iter # Uninitialized /\ vars' # vars

\* C32: iter->crossed_gap is false after GapBufferIter_init, becomes true in
\* the call that copies a line across the gap (and in no other call), and
\* never becomes false again; at most one call of GapBufferIter_next in a
\* traversal takes that branch and returns true; and GapBufferIter_next
\* leaves gap_offset, gap_length, total and the stored bytes of the buffer
\* as they were.
C32_CrossedGapOnce ==
    [][/\ last'.op = "iterInit" => ~iter'.crossed_gap
       /\ (iter # Uninitialized /\ iter.crossed_gap) => iter'.crossed_gap
       /\ IsIterNext =>
            /\ last'.path \in StitchPaths
                   <=> (~iter.crossed_gap /\ iter'.crossed_gap)
            /\ last'.path \in StitchPaths =>
                   last'.ret /\ trace.stitches = 0
            /\ trace'.stitches <= 1
            /\ UNCHANGED <<gap_offset, gap_length, total, data>>]_vars

\* The gap has been crossed by a copied line, and a later call has yielded a
\* line that lies after the gap, the flag still set.
C32_Witness ==
    /\ last.op = "iterNext"
    /\ last.path = "after_gap"
    /\ last.ret
    /\ iter.crossed_gap
    /\ trace.stitches = 1
    /\ Len(trace.lines) >= 3

-----------------------------------------------------------------------------
\* The text a buffer holds: the bytes before its gap and those after it.
ContentOf(b) == getStringBeforeGap(b) \o getStringAfterGap(b)

\* C33: with c codepoints before the cursor and N in all,
\* GapBuffer_moveRelative(k) and GapBuffer_moveAbsolute(max(0, min(N, c + k)))
\* give the same gap_offset, gap_length and content; and when
\* 0 <= c + k <= N, GapBuffer_moveRelative(k) followed by
\* GapBuffer_moveRelative(-k) leaves c codepoints before the cursor and the
\* content as it was.
C33_MotionsAgree ==
    \A k \in -MaxNum..MaxNum :
        LET c == CodepointCount(Before)
            N == CodepointCount(Content)
            rel == GapBuffer_moveRelative(Buff, k)
            abs == GapBuffer_moveAbsolute(Buff, MAX(0, Min(N, c + k)))
        IN  /\ rel # Abort
            /\ abs # Abort
            /\ rel.gap_offset = abs.gap_offset
            /\ rel.gap_length = abs.gap_length
            /\ ContentOf(rel) = ContentOf(abs)
            /\ ContentOf(rel) = Content
            /\ (0 <= c + k /\ c + k <= N) =>
                 LET back == GapBuffer_moveRelative(rel, -k) IN
                 /\ back # Abort
                 /\ CodepointCount(getStringBeforeGap(back)) = c
                 /\ back.gap_offset = gap_offset
                 /\ ContentOf(back) = Content

\* After a move the cursor stands inside a text: a codepoint at the least
\* before it, two at the least after it, one of them of several bytes, so that
\* moves of up to MaxNum codepoints stop at either end or in between.
C33_Witness ==
    /\ last.op \in {"moveRelative", "moveAbsolute"}
    /\ last.ret
    /\ CodepointCount(After) >= 2
    /\ CodepointCount(Before) >= 1
    /\ CodepointCount(Content) >= MaxNum
    /\ Len(After) > CodepointCount(After)
    /\ gap_length > 0

-----------------------------------------------------------------------------
\* C34: when n codepoints at the least follow the cursor,
\* GapBuffer_removeForwards(n) gives the same gap_offset, gap_length, total
\* and content as GapBuffer_moveRelative(n) followed by
\* GapBuffer_removeBackwards(n).
C34_RemovalsAgree ==
    \A n \in 0..MaxNum :
        n <= CodepointCount(After) =>
            LET forwards == GapBuffer_removeForwards(Buff, n)
                moved == GapBuffer_moveRelative(Buff, n)
                backwards == GapBuffer_removeBackwards(moved, n)
            IN  /\ moved # Abort
                /\ backwards # Abort
                /\ forwards.gap_offset = backwards.gap_offset
                /\ forwards.gap_length = backwards.gap_length
                /\ forwards.total = backwards.total
                /\ ContentOf(forwards) = ContentOf(backwards)

\* A removeForwards has taken codepoints from a text that goes on after the
\* cursor with two codepoints at the least, one of them of several bytes.
C34_Witness ==
    /\ last.op = "removeForwards"
    /\ last.delta < 0
    /\ CodepointCount(After) >= 2
    /\ Len(After) > CodepointCount(After)

-----------------------------------------------------------------------------
\* C35: when GapBuffer_insertString of a valid string S of k codepoints
\* returns true, GapBuffer_removeBackwards(k) gives back the content, the
\* gap_offset and the byte count there were before the insert, wherever the
\* cursor was; total and gap_length are as before too, or larger when the
\* insert has relocated the buffer.
C35_RemoveBackwardsUndoesInsert ==
    \A str \in Strings, malloc_ok \in BOOLEAN, junk \in Junk :
        LET r == GapBuffer_insertString(Ref, str, malloc_ok, junk)
            b == GapBuffer_removeBackwards(r.buff, CodepointCount(str))
        IN  (WellFormedUTF8(str) /\ r.ok) =>
                /\ b # Abort
                /\ ContentOf(b) = Content
                /\ getStringBeforeGap(b) = Before
                /\ b.gap_offset = gap_offset
                /\ GapBuffer_getByteCount(b) = GapBuffer_getByteCount(Buff)
                /\ b.total >= total
                /\ b.gap_length >= gap_length
                /\ InsertPath(str, malloc_ok) # "relocated" =>
                       b.total = total /\ b.gap_length = gap_length
                /\ InsertPath(str, malloc_ok) = "relocated" =>
                       b.total > total /\ b.gap_length > gap_length

\* A removeBackwards has taken several bytes from a buffer that inserts have
\* relocated, the cursor standing inside the text that is left.
C35_Witness ==
    /\ last.op = "removeBackwards"
    /\ last.delta < -1
    /\ ~is_static
    /\ total > MaxCapacity
    /\ Before # <<>>
    /\ After # <<>>

-----------------------------------------------------------------------------
\* C36: GapBuffer_insertString of no bytes (len = 0) returns true on every
\* buffer, a full buffer made from the caller's memory included
\* (gap_length = 0), and leaves gap_offset, gap_length, total, the stored
\* bytes and the handle as they were; no relocation is attempted: nothing is
\* allocated or released, whether malloc would succeed or not.
C36_EmptyInsertChangesNothing ==
    \A malloc_ok \in BOOLEAN, junk \in Junk :
        LET r == GapBuffer_insertString(Ref, <<>>, malloc_ok, junk) IN
        /\ r.ok
        /\ r.buff.gap_offset = gap_offset
        /\ r.buff.gap_length = gap_length
        /\ r.buff.total = total
        /\ r.buff.data = data
        /\ r.buff = Buff
        /\ r.handle = handle
        /\ r.heap = heap
        /\ ~CallsMalloc(<<>>)

\* The empty string has been inserted with success into a full buffer made
\* from the caller's memory.
C36_Witness ==
    /\ last.op = "insertString"
    /\ last.ret
    /\ last.delta = 0
    /\ is_static
    /\ no_resize
    /\ gap_length = 0
    /\ total > 0
    /\ Before # <<>>

====
